---------------------------- MODULE Spec2Model ----------------------------
(***************************************************************************)
(* A model of the WebGPU Ethash engine of rickyars/webetc: the on-device   *)
(* difficulty filter, the DAG builder and its buffer partitioning, the     *)
(* Hashimoto batch and the mining coordinator that sequences them.         *)
(*                                                                         *)
(* Arrays are 0-indexed functions, as in the source.  A u32 is a natural   *)
(* number below WordMod; a byte is a natural number below ByteMod.  The    *)
(* widths are scaled (ByteBits bits to the byte, four bytes to the u32),   *)
(* every other layout constant keeps the source's value.                   *)
(***************************************************************************)
EXTENDS Integers, Sequences, FiniteSets, TLC

(***************************************************************************)
(* Bounds of the model.                                                    *)
(***************************************************************************)
\* bits in one byte of the model (the source's bytes have 8)
ByteBits == 2
\* invocations in one workgroup (the shaders declare @workgroup_size(32))
WorkgroupSize == 2
\* largest number of hashes handed to one filter run
MaxBatch == 2

RECURSIVE Pow2(_)
Pow2(n) == IF n = 0 THEN 1 ELSE 2 * Pow2(n - 1)

ByteMod == Pow2(ByteBits)
ByteMax == ByteMod - 1
WordMod == ByteMod * ByteMod * ByteMod * ByteMod
WordMax == WordMod - 1

None == "none"
\* no slot obtained yet
NoSlot == 0 - 1

Length(a) == Cardinality(DOMAIN a)
CeilDiv(a, b) == (a \div b) + (IF a % b = 0 THEN 0 ELSE 1)
Min(a, b) == IF a < b THEN a ELSE b
ArrayOf(seq) == [k \in 0..(Len(seq) - 1) |-> seq[k + 1]]
Force(f) == IF f = <<>> THEN f ELSE f

\* the element of a one-element set: Only({F(t) : t \in {v}}) is F(v), with v
\* evaluated before F is applied to it
Only(S) == CHOOSE r \in S : TRUE

(***************************************************************************)
(* Host-side conversions between bytes and u32 words.                      *)
(***************************************************************************)
\* DataView.getUint32(off, true): four bytes, least significant first
getUint32_BE(bytes, off) ==
    bytes[off + 3] + ByteMod * (bytes[off + 2]
        + ByteMod * (bytes[off + 1] + ByteMod * bytes[off]))

getUint32(bytes, off) ==
    bytes[off] + ByteMod * (bytes[off + 1]
        + ByteMod * (bytes[off + 2] + ByteMod * bytes[off + 3]))

\* new Uint8Array(u32Array.buffer, ...): the bytes of a word array
RECURSIVE ByteOf(_, _)
ByteOf(word, k) == IF k = 0 THEN word % ByteMod ELSE ByteOf(word \div ByteMod, k - 1)

WordsToBytes(words) ==
    [b \in 0..(4 * Length(words) - 1) |-> ByteOf(words[b \div 4], b % 4)]

\* Number((difficulty >> BigInt(i * 32)) & 0xffffffff) of a bigint given by its
\* little-endian digits: digits past the end of the number are zero
Digit(big, k) == IF k \in DOMAIN big THEN big[k] ELSE 0

BigWord(big, i) ==
    Digit(big, 4 * i) + ByteMod * (Digit(big, 4 * i + 1)
        + ByteMod * (Digit(big, 4 * i + 2) + ByteMod * Digit(big, 4 * i + 3)))

(***************************************************************************)
(* Unsigned comparison of two numbers given by n little-endian digits, by  *)
(* the borrow of the subtraction a - b carried up from the least           *)
(* significant digit: a < b exactly when the last borrow is 1.             *)
(***************************************************************************)
RECURSIVE Borrow(_, _, _)
Borrow(a, b, n) ==
    IF n = 0 THEN 0
    ELSE IF Digit(a, n - 1) - Digit(b, n - 1) - Borrow(a, b, n - 1) < 0 THEN 1 ELSE 0

NatLess(a, b, n) == Borrow(a, b, n) = 1

(***************************************************************************)
(* Bitwise arithmetic.  A u32 is WordBits bits; a Keccak lane is the pair  *)
(* of u32 the shaders keep for it (low word first), held as the set of the *)
(* positions of its one bits.                                              *)
(***************************************************************************)
WordBits == 4 * ByteBits
LaneBits == 2 * WordBits

Pow2Tab == [i \in 0..LaneBits |-> Pow2(i)]

BitsOf(v) == {i \in 0..(WordBits - 1) : (v \div Pow2Tab[i]) % 2 = 1}

RECURSIVE NatOf(_)
NatOf(S) ==
  IF S = {} THEN 0
  ELSE LET i == CHOOSE b \in S : TRUE IN Pow2Tab[i] + NatOf(S \ {i})

SymDiff(A, B) == (A \ B) \cup (B \ A)

Xor(a, b) == NatOf(SymDiff(BitsOf(a), BitsOf(b)))

LaneOf(lo, hi) == BitsOf(lo) \cup {b + WordBits : b \in BitsOf(hi)}
LaneLo(l) == NatOf({b \in l : b < WordBits})
LaneHi(l) == NatOf({b - WordBits : b \in {c \in l : c >= WordBits}})
Rotl(l, r) == {(b + r) % LaneBits : b \in l}

(***************************************************************************)
(* fnv-shader.wgsl                                                         *)
(***************************************************************************)
MulWrap(x, c) == ((x % WordMod) * (c % WordMod)) % WordMod

fnv_no_xor(x, y) == (MulWrap(x, 16777216) + MulWrap(x, 403) + y) % WordMod

fnv(x, y) == Xor((MulWrap(x, 16777216) + MulWrap(x, 403)) % WordMod, y)

fnv_bytes_mix(a, b) == Force([i \in 0..15 |-> fnv(a[i], b[i])])

fnv_bytes_mix_32(a, b) == Force([i \in 0..31 |-> fnv(a[i], b[i])])

(***************************************************************************)
(* keccak-512-shader.wgsl.  The permutation is Keccak-f on 25 lanes of     *)
(* LaneBits bits: rotation amounts are taken modulo the lane width and the *)
(* round constants are cut to it, as the Keccak family defines its         *)
(* narrower members; KeccakRounds rounds are run.                          *)
(***************************************************************************)
KeccakRounds == 2

RC ==
  <<{0}, {1, 7, 15}, {1, 3, 7, 15, 63}, {15, 31, 63}, {0, 1, 3, 7, 15},
    {0, 31}, {0, 7, 15, 31, 63}, {0, 3, 15, 63}, {1, 3, 7}, {3, 7},
    {0, 3, 15, 31}, {1, 3, 31}, {0, 1, 3, 7, 15, 31}, {0, 1, 3, 7, 63},
    {0, 3, 7, 15, 63}, {0, 1, 15, 63}, {1, 15, 63}, {7, 63}, {1, 3, 15},
    {1, 3, 31, 63}, {0, 7, 15, 31, 63}, {7, 15, 63}, {0, 31},
    {3, 15, 31, 63}>>

ROT ==
  <<<<0, 36, 3, 41, 18>>, <<1, 44, 10, 45, 2>>, <<62, 6, 43, 15, 61>>,
    <<28, 55, 25, 21, 56>>, <<27, 20, 39, 8, 14>>>>

Theta(s) ==
  LET c == [x \in 0..4 |->
             SymDiff(SymDiff(SymDiff(s[x], s[x + 5]),
                             SymDiff(s[x + 10], s[x + 15])), s[x + 20])]
      d == [x \in 0..4 |-> SymDiff(c[(x + 4) % 5], Rotl(c[(x + 1) % 5], 1))]
  IN  [k \in 0..24 |-> SymDiff(s[k], d[k % 5])]

RhoPi(s) ==
  [k \in 0..24 |->
     LET y == k % 5
         x == ((k % 5) + 3 * (k \div 5)) % 5
     IN  Rotl(s[x + 5 * y], ROT[x + 1][y + 1] % LaneBits)]

Chi(b) ==
  [k \in 0..24 |->
     LET x == k % 5
         row == 5 * (k \div 5)
     IN  SymDiff(b[k], b[row + ((x + 2) % 5)] \ b[row + ((x + 1) % 5)])]

Iota(s, n) ==
  [s EXCEPT ![0] = SymDiff(s[0], {b \in RC[n + 1] : b < LaneBits})]

RECURSIVE keccak_f(_, _)
keccak_f(s, n) ==
  IF n = KeccakRounds THEN s
  ELSE Only({keccak_f(t, n + 1) :
               t \in {Force(Iota(Force(Chi(Force(RhoPi(Force(Theta(s)))))), n))}})

Absorb(input, words) ==
  [k \in 0..24 |->
     IF 2 * k + 1 < words THEN LaneOf(input[2 * k], input[2 * k + 1]) ELSE {}]

Squeeze(s, words) ==
  [i \in 0..(words - 1) |->
     IF i % 2 = 0 THEN LaneLo(s[i \div 2]) ELSE LaneHi(s[i \div 2])]

keccak512(input) == Force(Squeeze(keccak_f(Force(Absorb(input, 18)), 0), 16))

(***************************************************************************)
(* State.                                                                  *)
(***************************************************************************)
VARIABLES
    \* ---- difficulty filter (runDifficultyFilterGPU and its shader) ----
    fPhase,         \* "off" | "call" | "dispatched" | "returned"
    fIn,            \* the arguments: [hashes, nonces, difficulty]
    fHashes,        \* binding 0: hashes, 8 u32 per hash
    fNonces,        \* binding 1: nonces, 2 u32 per nonce
    valid_nonces,   \* binding 2: PooledNonce array, as u32 (lo, hi per slot)
    valid_count,    \* binding 3: atomic<u32>
    fParams,        \* binding 4: [0]=num_hashes, [1]=unused, [2..9]=threshold
    fpc,            \* per invocation: "start" | "add" | "store" | "done"
    fpos,           \* per invocation: the slot atomicAdd returned
    slotWrites,     \* per slot: how many invocations stored a nonce there
    filterOut,      \* the FilterResult returned, or None
    \* ---- buffer partitioning at the program's sizes (generateDAGGPU) ----
    ptPhase,        \* "off" | "start" | "planned" | "created" | "returned" | "threw"
    ptEpoch,        \* epoch
    ptLimit,        \* device.limits.maxStorageBufferBindingSize
    ptPlan,         \* [datasetBytes, numDAGItems, numBuffers, itemsPerBuffer]
    ptBuffers,      \* dagBuffers: per buffer created so far, its size in bytes
    \* ---- DAG build on a small dataset (generateDAGGPU and its shader) ----
    dPhase,         \* "off" | "start" | "chunk" | "dispatched" | "built" | "threw"
    dEpoch,         \* epoch
    dLimit,         \* device.limits.maxStorageBufferBindingSize
    dPlan,          \* numCacheItems, numDAGItems, numBuffers, itemsPerBuffer, ...
    cacheBuffer,    \* the cache on the device, 16 u32 per item; None once destroyed
    dagBuffers,     \* per partition, its u32 contents
    bufferIdx,      \* the chunk being generated
    chunkParams,    \* the five u32 written for the chunk; the shader binds four
    dpc,            \* per invocation <<x, y, local>> of the chunk: "ready" | "done"
    dagDataChunks,  \* the chunks read back so far
    \* ---- mining coordinator (MiningCoordinator and the device it drives) ----
    cPhase,         \* "off" | "constructed" | "getWork" | "building" | "ready" | "failed"
    setup,          \* this.setup: the dataset it names, or None
    currentWork,    \* this.currentWork, or None
    currentEpoch,   \* this.currentEpoch, or None
    mining,         \* this.mining
    subscribed,     \* this.unsubscribe is set
    stats,          \* this.stats: shares found, accepted, rejected, current block
    datasets,       \* the device allocations of each setupHashimotoGPU call
    builds,         \* per caller (0 initialize, h a handler) its setupHashimotoGPU
    handlers,       \* per new-block callback: where it is, the work it fetched
    loops,          \* per startMining call: where its mining loop is
    \* ---- one Hashimoto batch (runHashimotoBatchGPU and its kernel) ----
    bPhase,         \* "off" | "call" | "dispatched" | "filtering" | "returned" | "threw"
    bIn,            \* the arguments: headerHash, nonces, setup, difficulty
    bNonces,        \* the nonces binding (u32 words)
    bHeader,        \* the header_hash binding (8 u32 words)
    bParams,        \* the params uniform
    bHashes,        \* the hashes binding (8 u32 words per nonce)
    kpc,            \* per kernel invocation: "start" | "loop" | "final" | "done"
    kst,            \* per kernel invocation: s, mix and the access counter
    kreads,         \* the DAG items the kernel asked for, with what it got
    bResults,       \* the parsed results awaiting the filter
    bOut,           \* the returned HashimotoBatchResult
    bRun,           \* how many times the batch was run on these arguments
    bFirst,         \* what the first run returned
    \* ---- the dispatches of one DAG build, by what each invocation writes ----
    wPhase,         \* "off" | "start" | "chunk" | "dispatched" | "built" | "threw"
    wItems,         \* numDAGItems
    wLimit,         \* device.limits.maxStorageBufferBindingSize
    wPlan,          \* numDAGItems, numBuffers, itemsPerBuffer, workgroupsX
    wBufferIdx,     \* the chunk being generated
    wParams,        \* the five u32 written for the chunk; the shader binds four
    wpc,            \* per invocation <<x, y, local>> of the chunk: "ready" | "done"
    wWrites,        \* per invocation: the words of the bound buffer it stored
    \* ---- epoch manager (the two module-level caches and the last call) ----
    seedHashCache,  \* Map seed string -> epoch, as a set of <<seed, epoch>>
    epochSeedCache, \* Map epoch -> seed string, as a set of <<epoch, seed>>
    eIssued,        \* the <<epoch, seed>> pairs getSeedHashForEpoch has returned
    eCall,          \* the last call: [fn, epoch, seed, max] (arguments and result)
    \* ---- Keccak test harness (testKeccak, one test vector) ----
    tPhase,         \* "off" | "start" | "padded" | "uploaded" | "hashed"
    tTest,          \* the vector: [input (bytes), bits (256 | 512)]
    tPadded,        \* padded: Uint8Array(rate)
    tInputU32,      \* inputU32: the block bound to the shader
    tDigest,        \* the digest read back (u32 words)
    \* ---- cache size (getCacheItemCount, getCacheSizeBytes, generateDAGGPU) ----
    csPhase,        \* "off" | "start" | "search" | "done"
    csFn,           \* the function computing the count
    csEpoch,        \* epoch
    csItems,        \* items: the candidate count, then the count found
    csResult,       \* the value returned (items, or bytes for getCacheSizeBytes)
    \* ---- FNV at its 32-bit width (fnvEthash, the shader's fnv, the self-test) ----
    nvX,            \* first operand, four little-endian bytes
    nvY,            \* second operand
    nvCpu,          \* what fnvEthash(x, y) returned, <<>> before the call
    nvGpu,          \* what the shader's fnv(x, y) returned, <<>> before the call
    vfPhase,        \* validateFNVImplementation: "off" | "loop" | "returned"
    vfIdx,          \* the test vector the loop is at
    allPassed       \* allPassed

filterVars == <<fPhase, fIn, fHashes, fNonces, valid_nonces, valid_count,
                fParams, fpc, fpos, slotWrites, filterOut>>

partitionVars == <<ptPhase, ptEpoch, ptLimit, ptPlan, ptBuffers>>

dagVars == <<dPhase, dEpoch, dLimit, dPlan, cacheBuffer, dagBuffers, bufferIdx,
             chunkParams, dpc, dagDataChunks>>

coordVars == <<cPhase, setup, currentWork, currentEpoch, mining, subscribed,
               stats, datasets, builds, handlers, loops>>

batchVars == <<bPhase, bIn, bNonces, bHeader, bParams, bHashes, kpc, kst,
               kreads, bResults, bOut, bRun, bFirst>>

dispatchVars == <<wPhase, wItems, wLimit, wPlan, wBufferIdx, wParams, wpc,
                  wWrites>>

epochVars == <<seedHashCache, epochSeedCache, eIssued, eCall>>

testVars == <<tPhase, tTest, tPadded, tInputU32, tDigest>>

cacheVars == <<csPhase, csFn, csEpoch, csItems, csResult>>

fnvVars == <<nvX, nvY, nvCpu, nvGpu, vfPhase, vfIdx, allPassed>>

vars == <<filterVars, partitionVars, dagVars, coordVars, batchVars, dispatchVars, epochVars, testVars, cacheVars, fnvVars>>

FilterIdle ==
    /\ fPhase = "off" /\ fIn = None
    /\ fHashes = <<>> /\ fNonces = <<>> /\ valid_nonces = <<>> /\ valid_count = 0
    /\ fParams = <<>> /\ fpc = <<>> /\ fpos = <<>> /\ slotWrites = <<>>
    /\ filterOut = None

PartitionIdle ==
    /\ ptPhase = "off" /\ ptEpoch = 0 /\ ptLimit = 0
    /\ ptPlan = None /\ ptBuffers = <<>>

DagIdle ==
    /\ dPhase = "off" /\ dEpoch = 0 /\ dLimit = 0 /\ dPlan = None
    /\ cacheBuffer = None /\ dagBuffers = <<>> /\ bufferIdx = 0
    /\ chunkParams = <<>> /\ dpc = <<>> /\ dagDataChunks = <<>>

(* The coordinator's optional fields before they are assigned: no dataset *)
(* (datasets are numbered from 1), no work package, no epoch.              *)
NoSetup == 0

NoEpoch == 0 - 2

NoWork == [headerHash |-> "", seedHash |-> 0 - 1, target |-> "", blockNumber |-> 0]

NoStats == [sharesFound |-> 0, sharesAccepted |-> 0, sharesRejected |-> 0,
            currentBlock |-> 0]

BatchIdle ==
    /\ bPhase = "off" /\ bIn = None /\ bNonces = <<>> /\ bHeader = <<>>
    /\ bParams = <<>> /\ bHashes = <<>> /\ kpc = <<>> /\ kst = <<>>
    /\ kreads = {} /\ bResults = <<>> /\ bOut = None /\ bRun = 0
    /\ bFirst = None

NoCall == [fn |-> "none", epoch |-> 0 - 1, seed |-> <<>>, max |-> 0 - 1]

EpochIdle ==
    /\ seedHashCache = {} /\ epochSeedCache = {} /\ eIssued = {}
    /\ eCall = NoCall

TestIdle ==
    /\ tPhase = "off" /\ tTest = None /\ tPadded = <<>> /\ tInputU32 = <<>>
    /\ tDigest = <<>>

CacheIdle ==
    /\ csPhase = "off" /\ csFn = "" /\ csEpoch = 0 /\ csItems = 0
    /\ csResult = 0

FnvIdle ==
    /\ nvX = <<>> /\ nvY = <<>> /\ nvCpu = <<>> /\ nvGpu = <<>>
    /\ vfPhase = "off" /\ vfIdx = 0 /\ allPassed = TRUE

DispatchIdle ==
    /\ wPhase = "off" /\ wItems = 0 /\ wLimit = 0 /\ wPlan = None
    /\ wBufferIdx = 0 /\ wParams = <<>> /\ wpc = <<>> /\ wWrites = <<>>

CoordIdle ==
    /\ cPhase = "off" /\ setup = NoSetup /\ currentWork = NoWork
    /\ currentEpoch = NoEpoch /\ mining = FALSE /\ subscribed = FALSE
    /\ stats = NoStats /\ datasets = <<>> /\ builds = <<>> /\ handlers = <<>>
    /\ loops = <<>>

(***************************************************************************)
(* Inputs of a filter run: 32-byte hashes, 8-byte nonces and a threshold   *)
(* of 32 little-endian digits.                                             *)
(***************************************************************************)
OneByte(pos, v, fill) == [k \in 0..31 |-> IF k = pos THEN v ELSE fill]

HashSamples ==
    { OneByte(0, 0, 0),             \* 0
      OneByte(0, 1, 0),             \* 1
      OneByte(3, ByteMax, 0),       \* top byte of word 0
      OneByte(4, 1, 0),             \* lowest byte of word 1
      OneByte(31, 1, 0),            \* top byte of word 7
      OneByte(0, ByteMax, ByteMax)  \* 2^256 - 1
    }

ThresholdSamples ==
    HashSamples \cup
    { OneByte(1, 1, 0),             \* second byte of word 0
      OneByte(28, 1, 0),            \* lowest byte of word 7
      OneByte(31, ByteMax - 1, ByteMax)
    }

(***************************************************************************)
(* etc-client.ts difficultyToTarget: (1n << 256n) / difficulty on BigInts, *)
(* by long division of the 33 digits of 2^256 from the top digit down.     *)
(* The quotient keeps as many digits as it needs: 33 when difficulty is 1. *)
(***************************************************************************)
MaxDifficulty == 5

RECURSIVE DivMax256(_, _, _, _)
DivMax256(k, rem, difficulty, quot) ==
    IF k < 0 THEN quot
    ELSE LET cur == rem * ByteMod + (IF k = 32 THEN 1 ELSE 0)
         IN  DivMax256(k - 1, cur % difficulty, difficulty,
                       [quot EXCEPT ![k] = cur \div difficulty])

difficultyToTarget(difficulty) ==
    IF difficulty = 0 THEN [k \in 0..31 |-> 0]
    ELSE LET q == DivMax256(32, 0, difficulty, [k \in 0..32 |-> 0])
         IN  [k \in 0..(IF q[32] = 0 THEN 31 ELSE 32) |-> q[k]]

Thresholds ==
    ThresholdSamples \cup {difficultyToTarget(d) : d \in 0..MaxDifficulty}

NonceSamples ==
    { [k \in 0..7 |-> IF k = 0 THEN 1 ELSE 0],
      [k \in 0..7 |-> IF k < 4 THEN k % ByteMod ELSE (7 - k + 1) % ByteMod] }

ArraysOf(S, n) == [0..(n - 1) -> S]

(***************************************************************************)
(* difficulty-filter-shader.wgsl                                           *)
(***************************************************************************)
\* u256_less_than scanning the words upwards from word 0
RECURSIVE u256_scan_up(_, _, _)
u256_scan_up(a, b, i) ==
    IF i > 7 THEN FALSE
    ELSE IF a[i] # b[i] THEN a[i] < b[i]
    ELSE u256_scan_up(a, b, i + 1)

u256_less_than_lsw(a, b) == u256_scan_up(a, b, 0)

\* u256_less_than answering true for equal values
RECURSIVE u256_scan_or_equal(_, _, _)
u256_scan_or_equal(a, b, i) ==
    IF i < 0 THEN TRUE
    ELSE IF a[i] # b[i] THEN a[i] < b[i]
    ELSE u256_scan_or_equal(a, b, i - 1)

\* the loop of u256_less_than: for (var i = 7i; i >= 0; i = i - 1)
RECURSIVE u256_scan(_, _, _)
u256_scan(a, b, i) ==
    IF i < 0 THEN FALSE
    ELSE IF a[i] # b[i] THEN a[i] < b[i]
    ELSE u256_scan(a, b, i - 1)

u256_less_than(a, b) == u256_scan(a, b, 7)

\* the invocations of dispatchWorkgroups(ceil(numHashes / 32), 1, 1)
FilterTasks(n) == 0..(CeilDiv(n, WorkgroupSize) * WorkgroupSize - 1)

\* main, up to the decision: the bounds guard, the two array reads and the
\* comparison (all of them reads of read-only bindings)
FilterEnter(t) ==
    /\ fPhase = "dispatched"
    /\ fpc[t] = "start"
    /\ LET hash_idx   == t
           num_hashes == fParams[0]
       IN IF hash_idx >= num_hashes
          THEN fpc' = [fpc EXCEPT ![t] = "done"]
          ELSE LET hash     == [i \in 0..7 |-> fHashes[hash_idx * 8 + i]]
                   max_hash == [i \in 0..7 |-> fParams[2 + i]]
                   meets_difficulty == u256_less_than(hash, max_hash)
               IN fpc' = [fpc EXCEPT ![t] = IF meets_difficulty THEN "add" ELSE "done"]
    /\ UNCHANGED <<fPhase, fIn, fHashes, fNonces, valid_nonces, valid_count,
                   fParams, fpos, slotWrites, filterOut>>

\* a read of the counter followed by a separate write of it: two invocations may
\* read the same value
FilterAddNotAtomic(t) ==
    /\ fPhase = "dispatched"
    /\ fpc[t] = "add"
    /\ \E seen \in 0..valid_count :
          /\ fpos' = [fpos EXCEPT ![t] = seen]
          /\ valid_count' = seen + 1
    /\ fpc' = [fpc EXCEPT ![t] = "store"]
    /\ UNCHANGED <<fPhase, fIn, fHashes, fNonces, valid_nonces,
                   fParams, slotWrites, filterOut>>

\* let pos = atomicAdd(&valid_count, 1u);
FilterAtomicAdd(t) ==
    /\ fPhase = "dispatched"
    /\ fpc[t] = "add"
    /\ fpos' = [fpos EXCEPT ![t] = valid_count]
    /\ valid_count' = (valid_count + 1) % WordMod
    /\ fpc' = [fpc EXCEPT ![t] = "store"]
    /\ UNCHANGED <<fPhase, fIn, fHashes, fNonces, valid_nonces,
                   fParams, slotWrites, filterOut>>

\* valid_nonces[pos].nonce_lo = ...; valid_nonces[pos].nonce_hi = ...
\* (a write past the end of the binding is discarded)
FilterStore(t) ==
    /\ fPhase = "dispatched"
    /\ fpc[t] = "store"
    /\ LET pos          == fpos[t]
           nonce_offset == t * 2
       IN /\ valid_nonces' =
                [k \in DOMAIN valid_nonces |->
                    IF k = 2 * pos THEN fNonces[nonce_offset]
                    ELSE IF k = 2 * pos + 1 THEN fNonces[nonce_offset + 1]
                    ELSE valid_nonces[k]]
          /\ slotWrites' = [k \in DOMAIN slotWrites |->
                                IF k = pos THEN slotWrites[k] + 1 ELSE slotWrites[k]]
    /\ fpc' = [fpc EXCEPT ![t] = "done"]
    /\ UNCHANGED <<fPhase, fIn, fHashes, fNonces, valid_count,
                   fParams, fpos, filterOut>>

(***************************************************************************)
(* difficulty-filter.ts: runDifficultyFilterGPU                            *)
(***************************************************************************)
\* the conversion of the hashes with the bytes of each word taken big-endian
HashesToU32_BE(hashes) ==
    [k \in 0..(8 * Length(hashes) - 1) |-> getUint32_BE(hashes[k \div 8], (k % 8) * 4)]

HashesToU32(hashes) ==
    [k \in 0..(8 * Length(hashes) - 1) |-> getUint32(hashes[k \div 8], (k % 8) * 4)]

NoncesToU32(nonces) ==
    [k \in 0..(2 * Length(nonces) - 1) |-> getUint32(nonces[k \div 2], (k % 2) * 4)]

\* from the length check to dispatchWorkgroups and submit
FilterUpload ==
    /\ fPhase = "call"
    /\ IF Length(fIn.hashes) # Length(fIn.nonces)
       THEN /\ fPhase' = "threw"
            /\ UNCHANGED <<fHashes, fNonces, valid_nonces, valid_count, fParams,
                           fpc, fpos, slotWrites>>
       ELSE LET numHashes == Length(fIn.hashes)
            IN /\ fPhase' = "dispatched"
               /\ fHashes' = HashesToU32(fIn.hashes)
               /\ fNonces' = NoncesToU32(fIn.nonces)
               /\ valid_nonces' = [k \in 0..(2 * numHashes - 1) |-> 0]
               /\ valid_count' = 0
               /\ fParams' = [k \in 0..9 |->
                                IF k = 0 THEN numHashes
                                ELSE IF k = 1 THEN 0
                                ELSE BigWord(fIn.difficulty, k - 2)]
               /\ fpc' = [t \in FilterTasks(numHashes) |-> "start"]
               /\ fpos' = [t \in FilterTasks(numHashes) |-> NoSlot]
               /\ slotWrites' = [k \in 0..(numHashes - 1) |-> 0]
    /\ UNCHANGED <<fIn, filterOut>>

\* the two mapAsync readbacks and the parse of the winning nonces
FilterReadback ==
    /\ fPhase = "dispatched"
    /\ \A t \in DOMAIN fpc : fpc[t] = "done"
    /\ LET numHashes  == Length(fIn.hashes)
           validCount == valid_count
           slice(i)   == [k \in {j \in 0..1 : 2 * i + j \in DOMAIN valid_nonces} |->
                             valid_nonces[2 * i + k]]
       IN filterOut' = [validNonces |-> [i \in 0..(validCount - 1) |-> WordsToBytes(slice(i))],
                        totalHashes |-> numHashes,
                        validCount  |-> validCount]
    /\ fPhase' = "returned"
    /\ UNCHANGED <<fIn, fHashes, fNonces, valid_nonces, valid_count, fParams,
                   fpc, fpos, slotWrites>>

FilterStep ==
    \/ FilterUpload
    \/ \E t \in DOMAIN fpc : FilterEnter(t)
    \/ \E t \in DOMAIN fpc : FilterAtomicAdd(t)
    \/ \E t \in DOMAIN fpc : FilterStore(t)
    \/ FilterReadback

FilterOff ==
    /\ fHashes = <<>> /\ fNonces = <<>> /\ valid_nonces = <<>> /\ valid_count = 0
    /\ fParams = <<>> /\ fpc = <<>> /\ fpos = <<>> /\ slotWrites = <<>>
    /\ filterOut = None

(***************************************************************************)
(* SpecFilter: one filter run on every batch of up to MaxBatch sample      *)
(* hashes, every assignment of sample nonces and every sample threshold.   *)
(***************************************************************************)
InitFilter ==
    /\ fPhase = "call"
    /\ \E n \in 0..MaxBatch :
       \E hs \in ArraysOf(HashSamples, n), ns \in ArraysOf(NonceSamples, n),
          d \in Thresholds :
            fIn = [hashes |-> hs, nonces |-> ns, difficulty |-> d]
    /\ FilterOff
    /\ PartitionIdle /\ DagIdle /\ CoordIdle /\ BatchIdle /\ DispatchIdle /\ EpochIdle /\ TestIdle /\ CacheIdle /\ FnvIdle

NextFilter ==
    FilterStep /\ UNCHANGED <<partitionVars, dagVars, coordVars, batchVars, dispatchVars, epochVars, testVars, cacheVars, fnvVars>>

SpecFilter == InitFilter /\ [][NextFilter]_vars

(***************************************************************************)
(* C1.  The nonces the filter returns are exactly the nonces whose hash,   *)
(* read as a little-endian 256-bit unsigned integer, is below the          *)
(* threshold (as a multiset: a nonce supplied twice is returned as often   *)
(* as it wins), and the returned count is the number of such nonces.       *)
(***************************************************************************)
\* a threshold of at most 32 digits, that is, a 256-bit value
Fits256(big) == \A k \in DOMAIN big : k < 32

Wins(i) == NatLess(fIn.hashes[i], fIn.difficulty, 32)
Winners == {i \in DOMAIN fIn.hashes : Wins(i)}

C1_FilterExact ==
    (fPhase = "returned" /\ Fits256(fIn.difficulty)) =>
        /\ filterOut.validCount = Cardinality(Winners)
        /\ Length(filterOut.validNonces) = Cardinality(Winners)
        /\ \A v \in {fIn.nonces[i] : i \in DOMAIN fIn.nonces}
                    \cup {filterOut.validNonces[k] : k \in DOMAIN filterOut.validNonces} :
              Cardinality({k \in DOMAIN filterOut.validNonces : filterOut.validNonces[k] = v})
                = Cardinality({i \in Winners : fIn.nonces[i] = v})

\* a run that returned with a winner and a loser in the same batch
C1_Witness ==
    /\ fPhase = "returned"
    /\ Winners # {}
    /\ Winners # DOMAIN fIn.hashes

(***************************************************************************)
(* C2.  Under every interleaving of the invocations of one dispatch the    *)
(* winning invocations hold pairwise distinct slots, no slot is stored     *)
(* more than once, and once all are done the slots used are exactly        *)
(* 0..count-1, each stored once, with count the number of winning hashes;  *)
(* the counter is 0 at dispatch and every step leaves it or adds 1.        *)
(***************************************************************************)
Holding == {t \in DOMAIN fpc : fpos[t] # NoSlot}

C2_SlotsInv ==
    fPhase \in {"dispatched", "returned"} =>
        /\ \A t, u \in Holding : t # u => fpos[t] # fpos[u]
        /\ \A k \in DOMAIN slotWrites : slotWrites[k] <= 1
        /\ valid_count = Cardinality(Holding)
        /\ (\A t \in DOMAIN fpc : fpc[t] = "done") =>
              /\ Fits256(fIn.difficulty) => valid_count = Cardinality(Winners)
              /\ {fpos[t] : t \in Holding} = 0..(valid_count - 1)
              /\ \A k \in DOMAIN slotWrites : slotWrites[k] = (IF k < valid_count THEN 1 ELSE 0)
              /\ \A t \in Holding :
                    /\ valid_nonces[2 * fpos[t]] = fNonces[2 * t]
                    /\ valid_nonces[2 * fpos[t] + 1] = fNonces[2 * t + 1]

C2_AtomicSlots ==
    /\ []C2_SlotsInv
    /\ [][fPhase = "dispatched" =>
            (valid_count' = valid_count \/ valid_count' = valid_count + 1)]_vars

\* two winners of one dispatch, both done
C2_Witness ==
    /\ fPhase = "dispatched"
    /\ \A t \in DOMAIN fpc : fpc[t] = "done"
    /\ Cardinality(Holding) >= 2


(***************************************************************************)
(* dag-builder.ts: the sizes generateDAGGPU derives from the epoch and the *)
(* device limit, and the buffers it creates from them.                     *)
(***************************************************************************)
HASH_BYTES == 64
DATASET_BYTES_INIT == 1073741824
DATASET_BYTES_GROWTH == 8388608

datasetBytesOf(epoch) == DATASET_BYTES_INIT + epoch * DATASET_BYTES_GROWTH

numDAGItemsOf(datasetBytes) == datasetBytes \div HASH_BYTES

numBuffers_floor(datasetBytes, maxBufferSize) ==
    IF datasetBytes < maxBufferSize THEN 1 ELSE datasetBytes \div maxBufferSize

numBuffersOf(datasetBytes, maxBufferSize) == CeilDiv(datasetBytes, maxBufferSize)

itemsPerBuffer_floor(numDAGItems, numBuffers) == numDAGItems \div numBuffers

itemsPerBufferOf(numDAGItems, numBuffers) == CeilDiv(numDAGItems, numBuffers)

startItemOf(i, itemsPerBuffer) == i * itemsPerBuffer

endItemOf(i, itemsPerBuffer, numDAGItems) ==
    Min((i + 1) * itemsPerBuffer, numDAGItems)

PlanOf(datasetBytes, maxBufferSize) ==
    LET items == numDAGItemsOf(datasetBytes)
        n == numBuffersOf(datasetBytes, maxBufferSize)
    IN  [datasetBytes |-> datasetBytes, numDAGItems |-> items,
         numBuffers |-> n, itemsPerBuffer |-> itemsPerBufferOf(items, n)]

actualBytesOf(i, plan) ==
    (endItemOf(i, plan.itemsPerBuffer, plan.numDAGItems)
       - startItemOf(i, plan.itemsPerBuffer)) * HASH_BYTES

PartitionPlan ==
    /\ ptPhase = "start"
    /\ ptPlan' = PlanOf(datasetBytesOf(ptEpoch), ptLimit)
    /\ ptPhase' = "planned"
    /\ UNCHANGED <<ptEpoch, ptLimit, ptBuffers>>

PartitionCreate ==
    /\ ptPhase = "planned"
    /\ LET i == Length(ptBuffers)
           size == actualBytesOf(i, ptPlan)
       IN  IF size < 0
           THEN ptPhase' = "threw" /\ UNCHANGED ptBuffers
           ELSE /\ ptBuffers' = [k \in 0..i |-> IF k = i THEN size ELSE ptBuffers[k]]
                /\ ptPhase' = IF i + 1 = ptPlan.numBuffers THEN "created" ELSE "planned"
    /\ UNCHANGED <<ptEpoch, ptLimit, ptPlan>>

(* With the buffers created the chunks are generated one buffer at a time  *)
(* and { dag, dagBuffers } is returned: nothing after the creation loop    *)
(* compares the plan with a limit of the device or throws.                 *)
PartitionReturn ==
    /\ ptPhase = "created"
    /\ ptPhase' = "returned"
    /\ UNCHANGED <<ptEpoch, ptLimit, ptPlan, ptBuffers>>

(***************************************************************************)
(* SpecPartition: the partitioning for every epoch up to MaxEpoch and a    *)
(* range of device limits from the smallest a WebGPU device may report.    *)
(***************************************************************************)
MaxEpoch == 30

DeviceLimits ==
    {134217728, 268435456, 536870908, 536870912, 1073741824, 2147483644}

InitPartition ==
    /\ ptPhase = "start"
    /\ ptEpoch \in 0..MaxEpoch
    /\ ptLimit \in DeviceLimits
    /\ ptPlan = None /\ ptBuffers = <<>>
    /\ FilterIdle /\ DagIdle /\ CoordIdle /\ BatchIdle /\ DispatchIdle /\ EpochIdle /\ TestIdle /\ CacheIdle /\ FnvIdle

NextPartition ==
    /\ \/ PartitionPlan
       \/ PartitionCreate
       \/ PartitionReturn
    /\ UNCHANGED <<filterVars, dagVars, coordVars, batchVars, dispatchVars, epochVars, testVars, cacheVars, fnvVars>>

SpecPartition == InitPartition /\ [][NextPartition]_vars

(***************************************************************************)
(* C10.  With N = ceil(totalBytes / maxAllocationBytes) and                *)
(* itemsPerPartition = ceil(totalItems / N): once the N partitions are     *)
(* created, every partition but the last holds exactly itemsPerPartition   *)
(* items, the last holds the rest (at most itemsPerPartition, not less     *)
(* than none), so that with partition i starting at item                   *)
(* i * itemsPerPartition the partitions are contiguous, do not overlap,    *)
(* and together hold exactly totalItems items.                             *)
(***************************************************************************)
ItemsIn(i) == ptBuffers[i] \div HASH_BYTES

RECURSIVE ItemsUpTo(_)
ItemsUpTo(i) == IF i = 0 THEN 0 ELSE ItemsUpTo(i - 1) + ItemsIn(i - 1)

C10_Partitioning ==
    ptPhase = "created" =>
      LET totalBytes == DATASET_BYTES_INIT + ptEpoch * DATASET_BYTES_GROWTH
          totalItems == totalBytes \div HASH_BYTES
          N == Length(ptBuffers)
          ipp == ItemsIn(0)
      IN  /\ N = (totalBytes - 1) \div ptLimit + 1
          /\ ipp = (totalItems - 1) \div N + 1
          /\ \A i \in 0..(N - 2) : ItemsIn(i) = ipp
          /\ ItemsIn(N - 1) >= 0 /\ ItemsIn(N - 1) <= ipp
          /\ \A i \in 0..(N - 1) : ItemsUpTo(i) = i * ipp
          /\ \A i \in 0..(N - 1) : ptBuffers[i] = ItemsIn(i) * HASH_BYTES
          /\ ItemsUpTo(N) = totalItems

C10_Witness ==
    /\ ptPhase = "created"
    /\ Length(ptBuffers) >= 3
    /\ ItemsIn(Length(ptBuffers) - 1) < ItemsIn(0)


(***************************************************************************)
(* dag-builder-shader.wgsl: the dataset item of one index, and one         *)
(* invocation of main.  DatasetParents parents are mixed in.               *)
(***************************************************************************)
DatasetParents == 2

PadItem(mix) ==
    [i \in 0..17 |-> IF i < 16 THEN mix[i] ELSE IF i = 16 THEN 1 ELSE WordMod \div 2]

CacheItem(cache, idx) == Force([i \in 0..15 |-> cache[idx * 16 + i]])

RECURSIVE MixParents(_, _, _, _, _)
MixParents(cache, num_cache_items, dag_item_idx, mix, j) ==
    IF j = DatasetParents THEN mix
    ELSE LET cache_index_value == fnv(Xor(dag_item_idx, j), mix[j % 16])
             parent_cache_idx == cache_index_value % num_cache_items
         IN  Only({MixParents(cache, num_cache_items, dag_item_idx, m, j + 1) :
                      m \in {fnv_bytes_mix(mix, CacheItem(cache, parent_cache_idx))}})

calcDatasetItem(cache, num_cache_items, dag_item_idx) ==
    LET first == CacheItem(cache, dag_item_idx % num_cache_items)
        mix0 == Force([first EXCEPT ![0] = Xor(first[0], dag_item_idx)])
    IN  Only({keccak512(PadItem(mix2)) :
                 mix2 \in {MixParents(cache, num_cache_items, dag_item_idx, mix1, 0) :
                              mix1 \in {keccak512(PadItem(mix0))}}})

dag_item_idx_of(inv, params) ==
    (inv[2] * params[2] * params[3] + inv[1] * params[3] + inv[3]) % WordMod

StoreItem(dag, dag_item_idx, result) ==
    LET base == dag_item_idx * 16
    IN  [w \in DOMAIN dag |->
           IF w >= base /\ w < base + 16 THEN result[w - base] ELSE dag[w]]

DagInvoke(inv) ==
    /\ dPhase = "dispatched"
    /\ dpc[inv] = "ready"
    /\ LET num_cache_items == chunkParams[0]
           num_dag_items == chunkParams[1]
           dag_item_idx == dag_item_idx_of(inv, chunkParams)
       IN  IF dag_item_idx >= num_dag_items
           THEN UNCHANGED dagBuffers
           ELSE dagBuffers' =
                  [dagBuffers EXCEPT ![bufferIdx] =
                     StoreItem(@, dag_item_idx,
                               calcDatasetItem(cacheBuffer, num_cache_items,
                                               dag_item_idx))]
    /\ dpc' = [dpc EXCEPT ![inv] = "done"]
    /\ UNCHANGED <<dPhase, dEpoch, dLimit, dPlan, cacheBuffer, bufferIdx,
                   chunkParams, dagDataChunks>>


(***************************************************************************)
(* dag-builder.ts: generateDAGGPU on a small dataset.  The dataset starts  *)
(* at SmallItemsInit items and grows by SmallItemsGrowth items an epoch,   *)
(* the cache starts at SmallCacheItems items and grows by one; a dispatch  *)
(* dimension holds at most MaxWorkgroupsPerDimension workgroups.           *)
(***************************************************************************)
SmallItemsInit == 5
SmallItemsGrowth == 1
SmallCacheItems == 3
MaxWorkgroupsPerDimension == 3

smallDatasetBytesOf(epoch) ==
    HASH_BYTES * SmallItemsInit + epoch * (HASH_BYTES * SmallItemsGrowth)

mkcache(epoch) ==
    [w \in 0..((SmallCacheItems + epoch) * 16 - 1) |->
       (w * w + 3 * w + 5 * epoch + 1) % WordMod]

WorkgroupsXY(totalWorkgroups) ==
    IF totalWorkgroups > MaxWorkgroupsPerDimension
    THEN LET y == CeilDiv(totalWorkgroups, MaxWorkgroupsPerDimension)
         IN  <<CeilDiv(totalWorkgroups, y), y>>
    ELSE <<totalWorkgroups, 1>>

DagSetup ==
    /\ dPhase = "start"
    /\ LET cache == mkcache(dEpoch)
           plan == PlanOf(smallDatasetBytesOf(dEpoch), dLimit)
           wg == WorkgroupsXY(CeilDiv(plan.numDAGItems, WorkgroupSize))
       IN  /\ dPlan' = [numCacheItems |-> Length(cache) \div 16,
                        numDAGItems |-> plan.numDAGItems,
                        numBuffers |-> plan.numBuffers,
                        itemsPerBuffer |-> plan.itemsPerBuffer,
                        workgroupsX |-> wg[1], workgroupsY |-> wg[2]]
           /\ IF \E i \in 0..(plan.numBuffers - 1) : actualBytesOf(i, plan) < 0
              THEN /\ dPhase' = "threw"
                   /\ cacheBuffer' = cache
                   /\ UNCHANGED dagBuffers
              ELSE /\ dPhase' = "chunk"
                   /\ cacheBuffer' = cache
                   /\ dagBuffers' =
                        [i \in 0..(plan.numBuffers - 1) |->
                           [w \in 0..(actualBytesOf(i, plan) \div 4 - 1) |-> 0]]
    /\ UNCHANGED <<dEpoch, dLimit, bufferIdx, chunkParams, dpc, dagDataChunks>>

ChunkDispatch ==
    /\ dPhase = "chunk"
    /\ LET startItem == startItemOf(bufferIdx, dPlan.itemsPerBuffer)
           endItem == endItemOf(bufferIdx, dPlan.itemsPerBuffer, dPlan.numDAGItems)
           chunkItems == endItem - startItem
           wg == WorkgroupsXY(CeilDiv(chunkItems, WorkgroupSize))
       IN  /\ chunkParams' = ArrayOf(<<dPlan.numCacheItems, chunkItems,
                                       dPlan.workgroupsX, WorkgroupSize,
                                       startItem>>)
           /\ dpc' = [inv \in (0..(wg[1] - 1)) \X (0..(wg[2] - 1))
                               \X (0..(WorkgroupSize - 1)) |-> "ready"]
    /\ dPhase' = "dispatched"
    /\ UNCHANGED <<dEpoch, dLimit, dPlan, cacheBuffer, dagBuffers, bufferIdx,
                   dagDataChunks>>

ChunkReadback ==
    /\ dPhase = "dispatched"
    /\ \A inv \in DOMAIN dpc : dpc[inv] = "done"
    /\ dagDataChunks' =
         [k \in 0..bufferIdx |->
            IF k = bufferIdx THEN dagBuffers[bufferIdx] ELSE dagDataChunks[k]]
    /\ bufferIdx' = bufferIdx + 1
    /\ IF bufferIdx + 1 < dPlan.numBuffers
       THEN dPhase' = "chunk" /\ UNCHANGED cacheBuffer
       ELSE dPhase' = "built" /\ cacheBuffer' = None
    /\ UNCHANGED <<dEpoch, dLimit, dPlan, dagBuffers, chunkParams, dpc>>

(***************************************************************************)
(* SpecDag: one build for every small epoch and every device limit of      *)
(* MinLimitItems items or more, every order of the invocations of a chunk. *)
(***************************************************************************)
SmallEpochs == 1
MinLimitItems == 2

SmallLimits ==
    {HASH_BYTES * k :
       k \in MinLimitItems..(SmallItemsInit + SmallEpochs * SmallItemsGrowth)}

InitDag ==
    /\ dPhase = "start"
    /\ dEpoch \in 0..SmallEpochs
    /\ dLimit \in SmallLimits
    /\ dPlan = None /\ cacheBuffer = None /\ dagBuffers = <<>> /\ bufferIdx = 0
    /\ chunkParams = <<>> /\ dpc = <<>> /\ dagDataChunks = <<>>
    /\ FilterIdle /\ PartitionIdle /\ CoordIdle /\ BatchIdle /\ DispatchIdle /\ EpochIdle /\ TestIdle /\ CacheIdle /\ FnvIdle

NextDag ==
    /\ \/ DagSetup
       \/ ChunkDispatch
       \/ \E inv \in DOMAIN dpc : DagInvoke(inv)
       \/ ChunkReadback
    /\ UNCHANGED <<filterVars, partitionVars, coordVars, batchVars, dispatchVars, epochVars, testVars, cacheVars, fnvVars>>

SpecDag == InitDag /\ [][NextDag]_vars

(***************************************************************************)
(* C4.  Once the dataset of an epoch is built, for every global item index *)
(* i below the item count the 16 words (64 bytes) of partition             *)
(* floor(i / itemsPerPartition) at local item i mod itemsPerPartition are  *)
(* the dataset item of the cache computed with the global index i.         *)
(***************************************************************************)
StoredItem(i) ==
    LET dag == dagBuffers[i \div dPlan.itemsPerBuffer]
        local == i % dPlan.itemsPerBuffer
    IN  [j \in 0..15 |-> dag[local * 16 + j]]

C4_GlobalItems ==
    dPhase = "built" =>
      \A i \in 0..(dPlan.numDAGItems - 1) :
         StoredItem(i) = calcDatasetItem(mkcache(dEpoch), dPlan.numCacheItems, i)

C4_FirstPartition ==
    dPhase = "built" =>
      \A i \in 0..(Min(dPlan.itemsPerBuffer, dPlan.numDAGItems) - 1) :
         StoredItem(i) = calcDatasetItem(mkcache(dEpoch), dPlan.numCacheItems, i)

(***************************************************************************)
(* The mining coordinator.  A seed hash is identified by the epoch it is   *)
(* the seed of; getEpochFromSeedHash walks the seed chain up to maxEpoch   *)
(* and answers -1 for a seed it does not meet.  A dataset of the device is *)
(* what one setupHashimotoGPU call allocated: the cache buffer of the      *)
(* setup, the cache buffer of the DAG builder, and the DAG partitions.     *)
(***************************************************************************)
maxEpoch == 1000

getEpochFromSeedHash(seedHash) ==
    IF seedHash <= maxEpoch THEN seedHash ELSE 0 - 1

hasEpochChanged(currentSeed, newSeed) == currentSeed # newSeed

WorkSamples ==
    { [headerHash |-> "h1", seedHash |-> 0, target |-> "t1", blockNumber |-> 1],
      [headerHash |-> "h2", seedHash |-> 0, target |-> "t2", blockNumber |-> 2],
      [headerHash |-> "h3", seedHash |-> 1, target |-> "t3", blockNumber |-> 3],
      [headerHash |-> "h4", seedHash |-> maxEpoch + 1, target |-> "t4",
       blockNumber |-> 4] }

MaxHandlers == 2
MaxLoops == 1
MaxBatches == 2
MaxWinners == 1

Callers == 0..MaxHandlers

CoordLimit == HASH_BYTES * SmallItemsInit

numBuffersIn(epoch) == PlanOf(smallDatasetBytesOf(epoch), CoordLimit).numBuffers

NoBuild == [pc |-> "none", epoch |-> NoEpoch, ds |-> NoSetup]

Complete(d) == datasets[d].written = datasets[d].numBuffers

(* setupHashimotoGPU is entered: it awaits generateCache.                   *)
setupHashimotoGPU(epoch) == [pc |-> "cache", epoch |-> epoch, ds |-> NoSetup]

(* this.setup while the setup of caller o is still being built: the        *)
(* assignment waits for the awaited call, so the field keeps its value.    *)
SetupPublishedEarly(old, ds) == ds

SetupWhileBuilding(old, ds) == old

(* The cache is there: the setup's cache buffer is created, generateDAGGPU *)
(* creates its own cache buffer and every partition, and dispatches the    *)
(* first chunk.                                                            *)
BuildAllocate(o) ==
    /\ builds[o].pc = "cache"
    /\ datasets' = Append(datasets,
          [epoch |-> builds[o].epoch, cacheBuffer |-> "live",
           builderCache |-> "live",
           dagBuffers |-> numBuffersIn(builds[o].epoch),
           numBuffers |-> numBuffersIn(builds[o].epoch), written |-> 0])
    /\ builds' = [builds EXCEPT ![o].pc = "chunks", ![o].ds = Len(datasets) + 1]
    /\ setup' = SetupWhileBuilding(setup, Len(datasets) + 1)
    /\ UNCHANGED <<cPhase, currentWork, currentEpoch, mining, subscribed,
                   stats, handlers, loops>>

(* A chunk's staging buffer is mapped: its writes are complete.  After the *)
(* last chunk the builder destroys its own cache buffer and returns.       *)
BuildChunkDone(o) ==
    /\ builds[o].pc = "chunks"
    /\ LET d == builds[o].ds
           last == datasets[d].written + 1 = datasets[d].numBuffers
       IN  /\ datasets' = [datasets EXCEPT
                 ![d].written = @ + 1,
                 ![d].builderCache = IF last THEN "destroyed" ELSE @]
           /\ builds' = [builds EXCEPT
                 ![o].pc = IF last THEN "complete" ELSE "chunks"]
    /\ UNCHANGED <<cPhase, setup, currentWork, currentEpoch, mining,
                   subscribed, stats, handlers, loops>>

(* A fatal error (cache generation, allocation, device loss): the setup    *)
(* logs and rethrows; what was allocated stays allocated.                  *)
BuildFail(o) ==
    /\ builds[o].pc \in {"cache", "chunks"}
    /\ builds' = [builds EXCEPT ![o].pc = "failed"]
    /\ UNCHANGED <<cPhase, setup, currentWork, currentEpoch, mining,
                   subscribed, stats, datasets, handlers, loops>>

(* initialize(): getWork, the epoch of its seed, the setup, the stats.     *)
InitializeCall ==
    /\ cPhase = "constructed"
    /\ cPhase' = "getWork"
    /\ UNCHANGED <<setup, currentWork, currentEpoch, mining, subscribed,
                   stats, datasets, builds, handlers, loops>>

InitializeGotWork ==
    /\ cPhase = "getWork"
    /\ \/ /\ cPhase' = "failed"                    \* getWork throws
          /\ UNCHANGED <<currentWork, currentEpoch, builds>>
       \/ \E r \in WorkSamples :
            /\ currentWork' = r
            /\ currentEpoch' = getEpochFromSeedHash(r.seedHash)
            /\ IF getEpochFromSeedHash(r.seedHash) = 0 - 1
               THEN cPhase' = "failed" /\ UNCHANGED builds
               ELSE /\ cPhase' = "building"
                    /\ builds' = [builds EXCEPT ![0] =
                          setupHashimotoGPU(getEpochFromSeedHash(r.seedHash))]
    /\ UNCHANGED <<setup, mining, subscribed, stats, datasets, handlers, loops>>

InitializeBuilt ==
    /\ cPhase = "building"
    /\ builds[0].pc = "complete"
    /\ setup' = builds[0].ds
    /\ stats' = [stats EXCEPT !.currentBlock = currentWork.blockNumber]
    /\ cPhase' = "ready"
    /\ builds' = [builds EXCEPT ![0].pc = "returned"]
    /\ UNCHANGED <<currentWork, currentEpoch, mining, subscribed, datasets,
                   handlers, loops>>

InitializeBuildFailed ==
    /\ cPhase = "building"
    /\ builds[0].pc = "failed"
    /\ cPhase' = "failed"
    /\ builds' = [builds EXCEPT ![0].pc = "thrown"]
    /\ UNCHANGED <<setup, currentWork, currentEpoch, mining, subscribed,
                   stats, datasets, handlers, loops>>

(* mineBatch up to its await: the setup and the work are read, the nonces  *)
(* are drawn and runHashimotoBatchGPU is called with them.                 *)
Building == \E o \in Callers : builds[o].pc \in {"cache", "chunks"}

mineBatch(loop) ==
    [loop EXCEPT !.pc = "inflight", !.ds = setup, !.work = currentWork,
                 !.batches = @ + 1, !.overlap = Building]

(* stopped and atStop are a record kept for the properties: whether        *)
(* stopMining was called while the loop ran, and the batches it had then.  *)
NewLoop == [pc |-> "idle", ds |-> NoSetup, work |-> NoWork, toSubmit |-> 0,
            batches |-> 0, overlap |-> FALSE, header |-> "",
            stopped |-> FALSE, atStop |-> 0]

(* startMining(): refused while mining or before initialize; otherwise the *)
(* flag is set, the new-block subscription is made and the loop enters its *)
(* first mineBatch.                                                        *)
startMiningUpTo(calls) ==
    /\ ~mining
    /\ setup # NoSetup /\ currentWork # NoWork
    /\ Len(loops) < calls
    /\ mining' = TRUE
    /\ subscribed' = TRUE
    /\ loops' = Append(loops, mineBatch(NewLoop))
    /\ UNCHANGED <<cPhase, setup, currentWork, currentEpoch, stats, datasets,
                   builds, handlers>>

startMining == startMiningUpTo(MaxLoops)

Ended(l) == loops[l].pc \in {"returned", "crashed"}

stopMining ==
    /\ mining
    /\ mining' = FALSE
    /\ subscribed' = FALSE
    /\ loops' = [l \in DOMAIN loops |->
                   IF Ended(l) THEN loops[l]
                   ELSE [loops[l] EXCEPT !.stopped = TRUE,
                                         !.atStop = loops[l].batches]]
    /\ UNCHANGED <<cPhase, setup, currentWork, currentEpoch, stats, datasets,
                   builds, handlers>>

(* while (this.mining) await this.mineBatch()                              *)
LoopIter(l) ==
    /\ loops[l].pc = "idle"
    /\ IF ~mining
       THEN loops' = [loops EXCEPT ![l].pc = "returned"]
       ELSE /\ loops[l].batches < MaxBatches
            /\ loops' = [loops EXCEPT ![l] = mineBatch(@)]
    /\ UNCHANGED <<cPhase, setup, currentWork, currentEpoch, mining,
                   subscribed, stats, datasets, builds, handlers>>

(* runHashimotoBatchGPU returns: some of the nonces may be winners.        *)
MineBatchReturn(l) ==
    /\ loops[l].pc = "inflight"
    /\ \E k \in 0..MaxWinners :
         loops' = [loops EXCEPT ![l].toSubmit = k,
                     ![l].pc = IF k > 0 THEN "submitting" ELSE "idle"]
    /\ UNCHANGED <<cPhase, setup, currentWork, currentEpoch, mining,
                   subscribed, stats, datasets, builds, handlers>>

(* runHashimotoBatchGPU throws (a setup without a DAG buffer to bind, a    *)
(* device error): nothing catches it, startMining rejects.                 *)
MineBatchThrow(l) ==
    /\ loops[l].pc = "inflight"
    /\ loops' = [loops EXCEPT ![l].pc = "crashed"]
    /\ UNCHANGED <<cPhase, setup, currentWork, currentEpoch, mining,
                   subscribed, stats, datasets, builds, handlers>>

(* submitShare up to its await: the header of the work current now.        *)
SubmitCall(l) ==
    /\ loops[l].pc = "submitting"
    /\ loops' = [loops EXCEPT ![l].pc = "awaitSubmit",
                              ![l].header = currentWork.headerHash]
    /\ UNCHANGED <<cPhase, setup, currentWork, currentEpoch, mining,
                   subscribed, stats, datasets, builds, handlers>>

SubmitResult(l) ==
    /\ loops[l].pc = "awaitSubmit"
    /\ \E r \in {"accepted", "rejected", "error"} :
         stats' = [stats EXCEPT
            !.sharesFound = IF r = "error" THEN @ ELSE @ + 1,
            !.sharesAccepted = IF r = "accepted" THEN @ + 1 ELSE @,
            !.sharesRejected = IF r = "accepted" THEN @ ELSE @ + 1]
    /\ loops' = [loops EXCEPT ![l].toSubmit = @ - 1,
                    ![l].pc = IF loops[l].toSubmit > 1 THEN "submitting" ELSE "idle"]
    /\ UNCHANGED <<cPhase, setup, currentWork, currentEpoch, mining,
                   subscribed, datasets, builds, handlers>>

(* handleNewBlock.  snap is the state the handler found when it decided to *)
(* build (a record kept for the properties; the program has no such copy). *)
NoHandler == [pc |-> "unborn", newWork |-> NoWork,
              snap |-> [setup |-> NoSetup, currentWork |-> NoWork,
                        currentEpoch |-> NoEpoch]]

NewBlock(h) ==
    /\ subscribed
    /\ handlers[h].pc = "unborn"
    /\ \A g \in 1..(h - 1) : handlers[g].pc # "unborn"
    /\ handlers' = [handlers EXCEPT ![h].pc = "getWork"]
    /\ UNCHANGED <<cPhase, setup, currentWork, currentEpoch, mining,
                   subscribed, stats, datasets, builds, loops>>

HandlerGotWork(h) ==
    /\ handlers[h].pc = "getWork"
    /\ \/ /\ handlers' = [handlers EXCEPT ![h].pc = "caught"]   \* getWork throws
          /\ UNCHANGED <<currentWork, currentEpoch, stats, builds>>
       \/ \E w \in WorkSamples :
            IF hasEpochChanged(currentWork.seedHash, w.seedHash)
            THEN IF getEpochFromSeedHash(w.seedHash) = 0 - 1
                 THEN /\ handlers' = [handlers EXCEPT ![h].pc = "returned",
                                                      ![h].newWork = w]
                      /\ UNCHANGED <<currentWork, currentEpoch, stats, builds>>
                 ELSE /\ currentEpoch' = getEpochFromSeedHash(w.seedHash)
                      /\ builds' = [builds EXCEPT ![h] =
                            setupHashimotoGPU(getEpochFromSeedHash(w.seedHash))]
                      /\ handlers' = [handlers EXCEPT ![h].pc = "building",
                            ![h].newWork = w,
                            ![h].snap = [setup |-> setup,
                                         currentWork |-> currentWork,
                                         currentEpoch |-> currentEpoch]]
                      /\ UNCHANGED <<currentWork, stats>>
            ELSE /\ currentWork' = w
                 /\ stats' = [stats EXCEPT !.currentBlock = w.blockNumber]
                 /\ handlers' = [handlers EXCEPT ![h].pc = "done",
                                                 ![h].newWork = w]
                 /\ UNCHANGED <<currentEpoch, builds>>
    /\ UNCHANGED <<cPhase, setup, mining, subscribed, datasets, loops>>

HandlerBuilt(h) ==
    /\ handlers[h].pc = "building"
    /\ builds[h].pc = "complete"
    /\ setup' = builds[h].ds
    /\ currentWork' = handlers[h].newWork
    /\ stats' = [stats EXCEPT !.currentBlock = handlers[h].newWork.blockNumber]
    /\ handlers' = [handlers EXCEPT ![h].pc = "done"]
    /\ builds' = [builds EXCEPT ![h].pc = "returned"]
    /\ UNCHANGED <<cPhase, currentEpoch, mining, subscribed, datasets, loops>>

(* The catch of handleNewBlock only logs.                                  *)
HandlerBuildFailed(h) ==
    /\ handlers[h].pc = "building"
    /\ builds[h].pc = "failed"
    /\ handlers' = [handlers EXCEPT ![h].pc = "caught"]
    /\ builds' = [builds EXCEPT ![h].pc = "thrown"]
    /\ UNCHANGED <<cPhase, setup, currentWork, currentEpoch, mining,
                   subscribed, stats, datasets, loops>>

InitCoord ==
    /\ cPhase = "constructed" /\ setup = NoSetup /\ currentWork = NoWork
    /\ currentEpoch = NoEpoch /\ mining = FALSE /\ subscribed = FALSE
    /\ stats = NoStats /\ datasets = <<>>
    /\ builds = [o \in Callers |-> NoBuild]
    /\ handlers = [h \in 1..MaxHandlers |-> NoHandler]
    /\ loops = <<>>
    /\ FilterIdle /\ PartitionIdle /\ DagIdle /\ BatchIdle /\ DispatchIdle /\ EpochIdle /\ TestIdle /\ CacheIdle /\ FnvIdle

NextCoord ==
    /\ \/ InitializeCall
       \/ InitializeGotWork
       \/ InitializeBuilt
       \/ InitializeBuildFailed
       \/ \E o \in Callers : BuildAllocate(o)
       \/ \E o \in Callers : BuildChunkDone(o)
       \/ \E o \in Callers : BuildFail(o)
       \/ startMining
       \/ stopMining
       \/ \E l \in DOMAIN loops : LoopIter(l)
       \/ \E l \in DOMAIN loops : MineBatchReturn(l)
       \/ \E l \in DOMAIN loops : MineBatchThrow(l)
       \/ \E l \in DOMAIN loops : SubmitCall(l)
       \/ \E l \in DOMAIN loops : SubmitResult(l)
       \/ \E h \in 1..MaxHandlers : NewBlock(h)
       \/ \E h \in 1..MaxHandlers : HandlerGotWork(h)
       \/ \E h \in 1..MaxHandlers : HandlerBuilt(h)
       \/ \E h \in 1..MaxHandlers : HandlerBuildFailed(h)
    /\ UNCHANGED <<filterVars, partitionVars, dagVars, batchVars, dispatchVars, epochVars, testVars, cacheVars, fnvVars>>

SpecCoord == InitCoord /\ [][NextCoord]_vars

(***************************************************************************)
(* C5.  A mining batch never runs against a dataset that is still being    *)
(* built: the dataset a batch was started with has every chunk written,    *)
(* and while the setup of a new epoch is in progress the batch started     *)
(* meanwhile runs on another, complete dataset.                            *)
(***************************************************************************)
C5_BatchOnCompleteDataset ==
    \A l \in DOMAIN loops :
       loops[l].pc = "inflight" =>
          /\ loops[l].ds \in DOMAIN datasets
          /\ Complete(loops[l].ds)
          /\ \A o \in Callers :
                builds[o].pc = "chunks" => builds[o].ds # loops[l].ds

C5_Witness ==
    \E l \in DOMAIN loops : \E h \in 1..MaxHandlers :
       /\ loops[l].pc = "inflight" /\ loops[l].overlap
       /\ builds[h].pc = "chunks"
       /\ datasets[builds[h].ds].written > 0
       /\ loops[l].ds = handlers[h].snap.setup

(***************************************************************************)
(* C6.  The previous epoch's allocations are released before the next      *)
(* dataset is built: whenever no setup is in progress, the allocations of  *)
(* at most one dataset are live on the device.                             *)
(***************************************************************************)
Live(d) ==
    \/ datasets[d].cacheBuffer = "live"
    \/ datasets[d].builderCache = "live"
    \/ datasets[d].dagBuffers > 0

C6_OneDatasetLive ==
    ~Building => Cardinality({d \in DOMAIN datasets : Live(d)}) <= 1

(***************************************************************************)
(* C7.  When the build for a new epoch fails, the handler ends with the    *)
(* dataset, the epoch number and the work exactly as they were before the  *)
(* attempt (no other handler having run).                                  *)
(***************************************************************************)
C7_FailedBuildRestores ==
    \A h \in 1..MaxHandlers :
       ( /\ handlers[h].pc = "caught"
         /\ builds[h].pc = "thrown"
         /\ \A g \in 1..MaxHandlers : g # h => handlers[g].pc = "unborn" )
       => /\ setup = handlers[h].snap.setup
          /\ currentWork = handlers[h].snap.currentWork
          /\ currentEpoch = handlers[h].snap.currentEpoch

(***************************************************************************)
(* hashimoto-shader.wgsl: the kernel of one nonce.                         *)
(***************************************************************************)
Accesses == 1

MIX_WORDS == 32

(* ((w & 0xFF) << 24) | ((w & 0xFF00) << 8) | ((w & 0xFF0000) >> 8) | (w >> 24) *)
ReverseWord(w) ==
    ByteOf(w, 0) * Pow2(3 * ByteBits) + ByteOf(w, 1) * Pow2(2 * ByteBits)
      + ByteOf(w, 2) * Pow2(ByteBits) + ByteOf(w, 3)

(* each word byte-reversed, the two words left in their order *)
ReversedNonceNoSwap(nonce_lo, nonce_hi, k) ==
    IF k = 8 THEN ReverseWord(nonce_lo) ELSE ReverseWord(nonce_hi)

(* keccak_input[8] = nonce_hi_reversed; keccak_input[9] = nonce_lo_reversed *)
ReversedNonce(nonce_lo, nonce_hi, k) ==
    IF k = 8 THEN ReverseWord(nonce_hi) ELSE ReverseWord(nonce_lo)

keccak_input_of(header, nonce_lo, nonce_hi) ==
    Force([k \in 0..17 |->
       IF k < 8 THEN header[k]
       ELSE IF k < 10 THEN ReversedNonce(nonce_lo, nonce_hi, k)
       ELSE IF k = 10 THEN 1
       ELSE IF k = 17 THEN WordMod \div 2
       ELSE 0])

InitialMix(s) == Force([i \in 0..(MIX_WORDS - 1) |-> s[i % 16]])

(* p = (fnv(i ^ s[0], mix[i % w]) % (n / 2)) * 2 *)
AccessIndex(i, s0, mix, n) ==
    ((fnv(Xor(i, s0), mix[i % MIX_WORDS]) % (n \div 2)) * 2) % WordMod

MixItems(mix, dag_item_0, dag_item_1) ==
    Force([j \in 0..(MIX_WORDS - 1) |->
       IF j < 16 THEN fnv(mix[j], dag_item_0[j])
       ELSE fnv(mix[j], dag_item_1[j - 16])])

Compress(mix) ==
    Force([i \in 0..7 |->
       fnv(fnv(fnv(mix[4 * i], mix[4 * i + 1]), mix[4 * i + 2]), mix[4 * i + 3])])

final_input_of(s, cmix) ==
    Force([k \in 0..33 |->
       IF k < 16 THEN s[k]
       ELSE IF k < 24 THEN cmix[k - 16]
       ELSE IF k = 24 THEN 1
       ELSE IF k = 33 THEN WordMod \div 2
       ELSE 0])

(* Keccak-256 of one block: rate 136 bytes (34 words), 32 bytes out.       *)
keccak256(input) == Force(Squeeze(keccak_f(Force(Absorb(input, 34)), 0), 8))

(* The 16 words at dag[idx * 16 ..] of the bound buffer.  A read past the  *)
(* end of the binding yields zero or a value of the buffer: here the zero  *)
(* item or the buffer's first item.                                        *)
ItemAt(dag, idx) == Force([j \in 0..15 |-> dag[idx * 16 + j]])

LoadItem(dag, idx) ==
    IF idx * 16 + 15 < Length(dag)
    THEN {ItemAt(dag, idx)}
    ELSE {[j \in 0..15 |-> 0], ItemAt(dag, 0)}

OutputOffsetShared(nonce_idx) == 0

(* let output_offset = nonce_idx * 8u *)
OutputOffset(nonce_idx) == (nonce_idx * 8) % WordMod

(* The memory operations of one iteration of the access loop, in program   *)
(* order: the loop that loads word j of both DAG items into dag_item_0 and *)
(* dag_item_1 (words 0..15 and 16..31 of the pair), then the loop that     *)
(* overwrites mix[j] and mix[j + 16].                                      *)
RECURSIVE FusedLoop(_, _)
FusedLoop(j, ops) ==
    IF j = 16 THEN ops
    ELSE FusedLoop(j + 1, ops \o <<[op |-> "load", word |-> j],
                                   [op |-> "mix", word |-> j],
                                   [op |-> "load", word |-> j + 16],
                                   [op |-> "mix", word |-> j + 16]>>)

RECURSIVE LoadLoop(_, _)
LoadLoop(j, ops) ==
    IF j = 16 THEN ops
    ELSE LoadLoop(j + 1, ops \o <<[op |-> "load", word |-> j],
                                  [op |-> "load", word |-> j + 16]>>)

RECURSIVE MixLoop(_, _)
MixLoop(j, ops) ==
    IF j = 16 THEN ops
    ELSE MixLoop(j + 1, ops \o <<[op |-> "mix", word |-> j],
                                 [op |-> "mix", word |-> j + 16]>>)

AccessOpsFused == FusedLoop(0, <<>>)

AccessOps == MixLoop(0, LoadLoop(0, <<>>))

NoKst == [s |-> <<>>, mix |-> <<>>, i |-> 0, hash |-> <<>>, ops |-> <<>>]

(* From the bounds guard to mix = s repeated twice.                        *)
StartState(s) ==
    [s |-> s, mix |-> InitialMix(s), i |-> 0, hash |-> <<>>, ops |-> <<>>]

KernelStart(t) ==
    /\ bPhase = "dispatched"
    /\ kpc[t] = "start"
    /\ LET nonce_idx == t
           num_nonces == bParams[0]
       IN IF nonce_idx >= num_nonces
          THEN kpc' = [kpc EXCEPT ![t] = "done"] /\ UNCHANGED kst
          ELSE /\ kst' = [kst EXCEPT ![t] =
                    StartState(keccak512(keccak_input_of(bHeader,
                       bNonces[nonce_idx * 2], bNonces[nonce_idx * 2 + 1])))]
               /\ kpc' = [kpc EXCEPT ![t] = "loop"]
    /\ UNCHANGED <<bPhase, bIn, bNonces, bHeader, bParams, bHashes, kreads,
                   bResults, bOut, bRun, bFirst>>

(* One iteration of the access loop: the index, the two loads, the mixing. *)
AccessStep(t, p, dag_item_0, dag_item_1) ==
    /\ kst' = [kst EXCEPT ![t].mix = MixItems(@, dag_item_0, dag_item_1),
                          ![t].i = @ + 1,
                          ![t].ops = AccessOps]
    /\ kreads' = kreads \cup {[p |-> p, got |-> dag_item_0],
                              [p |-> p + 1, got |-> dag_item_1]}
    /\ kpc' = [kpc EXCEPT ![t] = IF kst[t].i + 1 = Accesses THEN "final" ELSE "loop"]

KernelAccess(t) ==
    /\ bPhase = "dispatched"
    /\ kpc[t] = "loop"
    /\ \E p \in {AccessIndex(kst[t].i, kst[t].s[0], kst[t].mix, bParams[1])} :
       \E dag_item_0 \in LoadItem(bIn.setup.dagBuffer, p),
          dag_item_1 \in LoadItem(bIn.setup.dagBuffer, p + 1) :
            AccessStep(t, p, dag_item_0, dag_item_1)
    /\ UNCHANGED <<bPhase, bIn, bNonces, bHeader, bParams, bHashes,
                   bResults, bOut, bRun, bFirst>>

(* The fold of the mix, the final Keccak-256 and the store of the hash.    *)
StoreHash(t, hash) ==
    /\ bHashes' = [k \in DOMAIN bHashes |->
                     IF k >= OutputOffset(t) /\ k < OutputOffset(t) + 8
                     THEN hash[k - OutputOffset(t)] ELSE bHashes[k]]
    /\ kst' = [kst EXCEPT ![t].hash = hash]

KernelFinish(t) ==
    /\ bPhase = "dispatched"
    /\ kpc[t] = "final"
    /\ StoreHash(t, keccak256(final_input_of(kst[t].s, Compress(kst[t].mix))))
    /\ kpc' = [kpc EXCEPT ![t] = "done"]
    /\ UNCHANGED <<bPhase, bIn, bNonces, bHeader, bParams, kreads,
                   bResults, bOut, bRun, bFirst>>

(***************************************************************************)
(* hashimoto.ts: runHashimotoBatchGPU.  An optional value that is absent   *)
(* (undefined) is the empty tuple.                                         *)
(***************************************************************************)
Undefined == <<>>

KernelTasks(n) == 0..(CeilDiv(n, WorkgroupSize) * WorkgroupSize - 1)

(* From the conversions to queue.submit.  The bind group takes              *)
(* setup.dagBuffer: its size is read first, which throws if it is absent.  *)
BatchCall ==
    /\ bPhase = "call"
    /\ bRun' = bRun + 1
    /\ IF bIn.setup.dagBuffer = Undefined
       THEN /\ bPhase' = "threw"
            /\ UNCHANGED <<bNonces, bHeader, bParams, bHashes, kpc, kst, kreads>>
       ELSE LET num_nonces == Length(bIn.nonces)
            IN /\ bPhase' = "dispatched"
               /\ bHeader' = [k \in 0..7 |-> getUint32(bIn.headerHash, 4 * k)]
               /\ bNonces' = NoncesToU32(bIn.nonces)
               /\ bParams' = ArrayOf(<<num_nonces,
                                       Length(bIn.setup.dag) \div 16,
                                       Length(bIn.setup.cache) \div 16, 0>>)
               /\ bHashes' = [k \in 0..(num_nonces * 8 - 1) |-> 0]
               /\ kpc' = [t \in KernelTasks(num_nonces) |-> "start"]
               /\ kst' = [t \in KernelTasks(num_nonces) |-> NoKst]
               /\ kreads' = {}
    /\ UNCHANGED <<bIn, bResults, bOut, bFirst>>

(* After mapAsync: the results are parsed; with a difficulty the filter is *)
(* called on them, without one the batch returns.                          *)
ParseResults(nonces, hashesData) ==
    [i \in 0..(Length(nonces) - 1) |->
       [nonce |-> nonces[i],
        hash |-> WordsToBytes([k \in 0..7 |-> hashesData[i * 8 + k]])]]

BatchReadback ==
    /\ bPhase = "dispatched"
    /\ \A t \in DOMAIN kpc : kpc[t] = "done"
    /\ bResults' = ParseResults(bIn.nonces, bHashes)
    /\ IF bIn.difficulty # Undefined
       THEN /\ bPhase' = "filtering"
            /\ fPhase' = "call"
            /\ fIn' = [hashes |-> [i \in DOMAIN bResults' |-> bResults'[i].hash],
                       nonces |-> [i \in DOMAIN bResults' |-> bResults'[i].nonce],
                       difficulty |-> bIn.difficulty]
            /\ UNCHANGED bOut
       ELSE /\ bPhase' = "returned"
            /\ bOut' = [results |-> bResults', filterResult |-> Undefined]
            /\ UNCHANGED <<fPhase, fIn>>
    /\ UNCHANGED <<fHashes, fNonces, valid_nonces, valid_count, fParams, fpc,
                   fpos, slotWrites, filterOut>>
    /\ UNCHANGED <<bIn, bNonces, bHeader, bParams, bHashes, kpc, kst, kreads,
                   bRun, bFirst>>

BatchReturn ==
    /\ bPhase = "filtering"
    /\ fPhase = "returned"
    /\ bOut' = [results |-> bResults,
                filterResult |-> [validNonces |-> filterOut.validNonces,
                                  validCount |-> filterOut.validCount,
                                  totalHashes |-> filterOut.totalHashes]]
    /\ bPhase' = "returned"
    /\ UNCHANGED <<bIn, bNonces, bHeader, bParams, bHashes, kpc, kst, kreads,
                   bResults, bRun, bFirst>>

(* The same arguments again.                                               *)
Runs == 2

BatchAgain ==
    /\ bPhase = "returned"
    /\ bRun < Runs
    /\ bFirst' = bOut
    /\ bPhase' = "call"
    /\ UNCHANGED <<bIn, bNonces, bHeader, bParams, bHashes, kpc, kst, kreads,
                   bResults, bOut, bRun>>

(***************************************************************************)
(* The setups a batch is given.  The dataset of the epoch has              *)
(* BatchItems items of 16 words.  generateDAGGPU leaves it in N            *)
(* partitions of ceil(items / N) items and returns them as dagBuffers, so  *)
(* the setup of setupHashimotoGPU has no dagBuffer; its dag is the view of *)
(* the chunks read back, each chunk computed from local item indexes.  A   *)
(* setup whose dataset is whole and split by hand has the first partition  *)
(* as dagBuffer and the whole dataset as dag.                              *)
(***************************************************************************)
BatchEpoch == 1

MaxPartitions == 3

Flatten(items) ==
    Force([w \in 0..(16 * Length(items) - 1) |-> items[w \div 16][w % 16]])

ReferenceDataset(epoch) ==
    Flatten(Force([i \in 0..(numDAGItemsOf(smallDatasetBytesOf(epoch)) - 1) |->
       calcDatasetItem(mkcache(epoch), SmallCacheItems + epoch, i)]))

BuiltDataset(ref, itemsPerBuffer) ==
    Force([w \in DOMAIN ref |-> ref[((w \div 16) % itemsPerBuffer) * 16 + (w % 16)]])

Partition(dag, b, itemsPerBuffer) ==
    Force([w \in 0..(16 * (Min((b + 1) * itemsPerBuffer, Length(dag) \div 16)
                            - b * itemsPerBuffer) - 1) |->
              dag[b * itemsPerBuffer * 16 + w]])

PipelineSetup(epoch, ref, N) ==
    [cache |-> mkcache(epoch),
     dag |-> BuiltDataset(ref, CeilDiv(Length(ref) \div 16, N)),
     dagBuffer |-> Undefined,
     numBuffers |-> N,
     itemsPerBuffer |-> CeilDiv(Length(ref) \div 16, N)]

SplitSetup(epoch, ref, N) ==
    [cache |-> mkcache(epoch),
     dag |-> ref,
     dagBuffer |-> Partition(ref, 0, CeilDiv(Length(ref) \div 16, N)),
     numBuffers |-> N,
     itemsPerBuffer |-> CeilDiv(Length(ref) \div 16, N)]

SetupsOf(epoch, ref) ==
    {PipelineSetup(epoch, ref, N) : N \in 1..MaxPartitions}
      \cup {SplitSetup(epoch, ref, N) : N \in 1..MaxPartitions}

HeaderSamples == { [k \in 0..31 |-> (k * k + 1) % ByteMod] }

DifficultySamples == { Undefined, OneByte(31, ByteMod \div 2, 0) }

InitBatch ==
    /\ bPhase = "call"
    /\ \E ref \in {ReferenceDataset(BatchEpoch)} :
       \E h \in HeaderSamples, d \in DifficultySamples, n \in 1..MaxBatch :
       \E ns \in ArraysOf(NonceSamples, n), st \in SetupsOf(BatchEpoch, ref) :
            bIn = [headerHash |-> h, nonces |-> ns, setup |-> st, difficulty |-> d]
    /\ bNonces = <<>> /\ bHeader = <<>> /\ bParams = <<>> /\ bHashes = <<>>
    /\ kpc = <<>> /\ kst = <<>> /\ kreads = {} /\ bResults = <<>>
    /\ bOut = None /\ bRun = 0 /\ bFirst = None
    /\ FilterIdle /\ PartitionIdle /\ DagIdle /\ CoordIdle /\ DispatchIdle /\ EpochIdle /\ TestIdle /\ CacheIdle /\ FnvIdle

NextBatch ==
    /\ \/ BatchCall /\ UNCHANGED filterVars
       \/ (\E t \in DOMAIN kpc : KernelStart(t)) /\ UNCHANGED filterVars
       \/ (\E t \in DOMAIN kpc : KernelAccess(t)) /\ UNCHANGED filterVars
       \/ (\E t \in DOMAIN kpc : KernelFinish(t)) /\ UNCHANGED filterVars
       \/ BatchReadback
       \/ bPhase = "filtering" /\ FilterStep /\ UNCHANGED batchVars
       \/ BatchReturn /\ UNCHANGED filterVars
       \/ BatchAgain /\ UNCHANGED filterVars
    /\ UNCHANGED <<partitionVars, dagVars, coordVars, dispatchVars, epochVars, testVars, cacheVars, fnvVars>>

SpecBatch == InitBatch /\ [][NextBatch]_vars

(***************************************************************************)
(* C3.  With the dataset in N = 1, 2 or 3 partitions, every read of item p *)
(* by the kernel is served by partition floor(p / itemsPerPartition) at    *)
(* local item p mod itemsPerPartition and yields the 16 words of item p of *)
(* the unpartitioned dataset.                                              *)
(***************************************************************************)
C3_PartitionedReads ==
    (bPhase # "off" /\ bIn.setup.numBuffers \in 1..3) =>
      \A r \in kreads :
         LET ipp == bIn.setup.itemsPerBuffer
         IN  /\ r.got = ItemAt(Partition(bIn.setup.dag, r.p \div ipp, ipp), r.p % ipp)
             /\ r.got = ItemAt(bIn.setup.dag, r.p)

C3_SinglePartition ==
    (bPhase # "off" /\ bIn.setup.numBuffers = 1) =>
      \A r \in kreads : r.got = ItemAt(bIn.setup.dag, r.p)

MaxItems == 13

FootprintOf(dag_item_idx) == {dag_item_idx * 16 + i : i \in 0..15}

BuildPlan ==
    /\ wPhase = "start"
    /\ LET plan == PlanOf(HASH_BYTES * wItems, wLimit)
           wg == WorkgroupsXY(CeilDiv(plan.numDAGItems, WorkgroupSize))
       IN  /\ wPlan' = [numDAGItems |-> plan.numDAGItems,
                        numBuffers |-> plan.numBuffers,
                        itemsPerBuffer |-> plan.itemsPerBuffer,
                        workgroupsX |-> wg[1], workgroupsY |-> wg[2]]
           /\ wPhase' = IF \E i \in 0..(plan.numBuffers - 1) :
                              actualBytesOf(i, plan) < 0
                        THEN "threw" ELSE "chunk"
    /\ UNCHANGED <<wItems, wLimit, wBufferIdx, wParams, wpc, wWrites>>

BuildDispatch ==
    /\ wPhase = "chunk"
    /\ LET startItem == startItemOf(wBufferIdx, wPlan.itemsPerBuffer)
           endItem == endItemOf(wBufferIdx, wPlan.itemsPerBuffer, wPlan.numDAGItems)
           chunkItems == endItem - startItem
           wg == WorkgroupsXY(CeilDiv(chunkItems, WorkgroupSize))
           invs == (0..(wg[1] - 1)) \X (0..(wg[2] - 1)) \X (0..(WorkgroupSize - 1))
       IN  /\ wParams' = ArrayOf(<<SmallCacheItems, chunkItems, wPlan.workgroupsX, WorkgroupSize,
                                   startItem>>)
           /\ wpc' = [inv \in invs |-> "ready"]
           /\ wWrites' = [inv \in invs |-> {}]
    /\ wPhase' = "dispatched"
    /\ UNCHANGED <<wItems, wLimit, wPlan, wBufferIdx>>

BuildInvoke(inv) ==
    /\ wPhase = "dispatched"
    /\ wpc[inv] = "ready"
    /\ LET num_dag_items == wParams[1]
           dag_item_idx == dag_item_idx_of(inv, wParams)
       IN  IF dag_item_idx >= num_dag_items
           THEN UNCHANGED wWrites
           ELSE wWrites' = [wWrites EXCEPT ![inv] = FootprintOf(dag_item_idx)]
    /\ wpc' = [wpc EXCEPT ![inv] = "done"]
    /\ UNCHANGED <<wPhase, wItems, wLimit, wPlan, wBufferIdx, wParams>>

BuildReadback ==
    /\ wPhase = "dispatched"
    /\ \A inv \in DOMAIN wpc : wpc[inv] = "done"
    /\ wBufferIdx' = wBufferIdx + 1
    /\ wPhase' = IF wBufferIdx + 1 < wPlan.numBuffers THEN "chunk" ELSE "built"
    /\ UNCHANGED <<wItems, wLimit, wPlan, wParams, wpc, wWrites>>

InitDispatch ==
    /\ wPhase = "start"
    /\ wItems \in 1..MaxItems
    /\ wLimit \in {HASH_BYTES * k : k \in MinLimitItems..MaxItems}
    /\ wPlan = None /\ wBufferIdx = 0 /\ wParams = <<>> /\ wpc = <<>>
    /\ wWrites = <<>>
    /\ FilterIdle /\ PartitionIdle /\ DagIdle /\ CoordIdle /\ BatchIdle /\ EpochIdle /\ TestIdle /\ CacheIdle /\ FnvIdle

NextDispatch ==
    /\ \/ BuildPlan
       \/ BuildDispatch
       \/ \E inv \in DOMAIN wpc : BuildInvoke(inv)
       \/ BuildReadback
    /\ UNCHANGED <<filterVars, partitionVars, dagVars, coordVars, batchVars, epochVars, testVars, cacheVars, fnvVars>>

SpecDispatch == InitDispatch /\ [][NextDispatch]_vars

(***************************************************************************)
(* C11.  When every invocation of a chunk's dispatch has run, every item   *)
(* of the chunk (index below the chunk's item count) has been stored by    *)
(* exactly one invocation, every invocation stored nothing or the 16 words *)
(* of the item of its own index, and an invocation whose index is at or    *)
(* above the item count stored nothing, whatever the X and Y split.        *)
(***************************************************************************)
WritersOf(item) == {inv \in DOMAIN wWrites : FootprintOf(item) \subseteq wWrites[inv]}

ChunkRan == wPhase = "dispatched" /\ \A inv \in DOMAIN wpc : wpc[inv] = "done"

C11_OwnItemOnly ==
    wPhase = "dispatched" =>
      \A inv \in DOMAIN wpc :
         LET idx == dag_item_idx_of(inv, wParams)
         IN  /\ wWrites[inv] \in {{}, FootprintOf(idx)}
             /\ idx >= wParams[1] => wWrites[inv] = {}

C11_EveryItemOnce ==
    ChunkRan =>
      /\ C11_OwnItemOnly
      /\ \A item \in 0..(wParams[1] - 1) : Cardinality(WritersOf(item)) = 1

C11_SingleChunk ==
    (ChunkRan /\ wPlan.numBuffers = 1) =>
      \A item \in 0..(wParams[1] - 1) : Cardinality(WritersOf(item)) = 1
(***************************************************************************)
(* C12.  In every access of a nonce's evaluation, all 32 words of the two  *)
(* DAG items (p and p + 1) are loaded before any word of mix is            *)
(* overwritten, and every word of mix is then overwritten once.            *)
(***************************************************************************)
OpsAt(ops, kind) == {k \in 1..Len(ops) : ops[k].op = kind}

HashWordsOf(i) == [k \in 0..7 |-> fHashes[i * 8 + k]]

MaxHashWords == [k \in 0..7 |-> fParams[2 + k]]

C13_LessThanIsUnsignedLess ==
    fPhase = "dispatched" =>
      \A i \in 0..(fParams[0] - 1) :
         /\ u256_less_than(HashWordsOf(i), MaxHashWords)
               = NatLess(HashWordsOf(i), MaxHashWords, 8)
         /\ HashWordsOf(i) = MaxHashWords
               => ~u256_less_than(HashWordsOf(i), MaxHashWords)

\* a hash equal to the threshold beside one that is below it although its
\* word 0 is above the threshold's
C13_Witness ==
    /\ fPhase = "dispatched"
    /\ \E i, j \in 0..(fParams[0] - 1) :
          /\ HashWordsOf(i) = MaxHashWords
          /\ HashWordsOf(j)[0] > MaxHashWords[0]
          /\ u256_less_than(HashWordsOf(j), MaxHashWords)
(***************************************************************************)
(* C14.  For every nonce of a batch, the Keccak-512 input of its kernel    *)
(* invocation holds the 32 bytes of the header hash and, right after them, *)
(* the 8 bytes of the nonce in reversed order: absorbed byte 32 + k is     *)
(* byte 7 - k of the nonce passed to runHashimotoBatchGPU.                 *)
(***************************************************************************)
KeccakInputOf(t) == keccak_input_of(bHeader, bNonces[t * 2], bNonces[t * 2 + 1])

C14_NonceFullyReversed ==
    \A t \in DOMAIN kst :
       (kpc[t] # "start" /\ t < bParams[0]) =>
          /\ kpc[t] = "loop" => kst[t].s = keccak512(KeccakInputOf(t))
          /\ \A k \in 0..31 :
                ByteOf(KeccakInputOf(t)[k \div 4], k % 4) = bIn.headerHash[k]
          /\ \A k \in 0..7 :
                ByteOf(KeccakInputOf(t)[8 + k \div 4], k % 4) = bIn.nonces[t][7 - k]

\* an invocation past stage 1 whose nonce is not a palindrome
C14_Witness ==
    \E t \in DOMAIN kst :
       /\ kpc[t] = "loop" /\ t < bParams[0]
       /\ bIn.nonces[t][0] # bIn.nonces[t][7]
       /\ bIn.nonces[t][3] # bIn.nonces[t][4]
       /\ bIn.nonces[t][1] # bIn.nonces[t][2]
(***************************************************************************)
(* C15.  The hash a batch returns for a nonce is the hash of the reference *)
(* run validateHashimotoGPU compares it with: Ethash.run on the same       *)
(* header and nonce, with the cache of the setup and fullSize the byte     *)
(* size of setup.dag (the reference computes each dataset item it reads    *)
(* from the cache).                                                        *)
(***************************************************************************)
RefInput(header, nonce) ==
    LET bytes == [k \in 0..71 |->
                    IF k < 32 THEN header[k]
                    ELSE IF k < 40 THEN nonce[39 - k]
                    ELSE IF k = 40 THEN 1
                    ELSE IF k = 71 THEN ByteMod \div 2
                    ELSE 0]
    IN  Force([w \in 0..17 |-> getUint32(bytes, 4 * w)])

RECURSIVE RefMix(_, _, _, _, _)
RefMix(i, s0, mix, cache, n) ==
    IF i = Accesses THEN mix
    ELSE LET p == AccessIndex(i, s0, mix, n)
         IN  Only({RefMix(i + 1, s0, m, cache, n) :
                     m \in {MixItems(mix,
                               calcDatasetItem(cache, Length(cache) \div 16, p),
                               calcDatasetItem(cache, Length(cache) \div 16, p + 1))}})

RefRun(header, nonce, cache, fullSize) ==
    Only({keccak256(final_input_of(s, Compress(
              RefMix(0, s[0], InitialMix(s), cache, fullSize \div HASH_BYTES)))) :
            s \in {keccak512(RefInput(header, nonce))}})

RefHashOf(i) ==
    WordsToBytes(RefRun(bIn.headerHash, bIn.nonces[i], bIn.setup.cache,
                        Length(bIn.setup.dag) * 4))

C15_MatchesReference ==
    bPhase = "returned" =>
      \A i \in DOMAIN bOut.results : bOut.results[i].hash = RefHashOf(i)

C15_SinglePartition ==
    (bPhase = "returned" /\ bIn.setup.numBuffers = 1) =>
      \A i \in DOMAIN bOut.results : bOut.results[i].hash = RefHashOf(i)
(***************************************************************************)
(* The coordinator without new blocks: initialize, then startMining and    *)
(* stopMining called in any order, at most MaxStarts starts.  A batch in   *)
(* flight completes or fails, an RPC answers or fails, and a continuation  *)
(* that is ready runs: every loop that can take a step eventually does.    *)
(***************************************************************************)
MaxStarts == 2

LoopStep(l) ==
    /\ l \in DOMAIN loops
    /\ \/ LoopIter(l)
       \/ MineBatchReturn(l)
       \/ MineBatchThrow(l)
       \/ SubmitCall(l)
       \/ SubmitResult(l)
    /\ UNCHANGED <<filterVars, partitionVars, dagVars, batchVars, dispatchVars, epochVars, testVars, cacheVars, fnvVars>>

NextMining ==
    /\ \/ InitializeCall
       \/ InitializeGotWork
       \/ InitializeBuilt
       \/ InitializeBuildFailed
       \/ BuildAllocate(0)
       \/ BuildChunkDone(0)
       \/ BuildFail(0)
       \/ startMiningUpTo(MaxStarts)
       \/ stopMining
       \/ \E l \in DOMAIN loops : LoopIter(l)
       \/ \E l \in DOMAIN loops : MineBatchReturn(l)
       \/ \E l \in DOMAIN loops : MineBatchThrow(l)
       \/ \E l \in DOMAIN loops : SubmitCall(l)
       \/ \E l \in DOMAIN loops : SubmitResult(l)
    /\ UNCHANGED <<filterVars, partitionVars, dagVars, batchVars, dispatchVars, epochVars, testVars, cacheVars, fnvVars>>

SpecMining ==
    /\ InitCoord
    /\ [][NextMining]_vars
    /\ \A l \in 1..MaxStarts : WF_vars(LoopStep(l))

(***************************************************************************)
(* C16.  Once stopMining() has been called while a startMining() call was  *)
(* running its loop, that loop dispatches no further batch, and the call   *)
(* eventually ends (it returns, or rejects if the batch in flight threw).  *)
(***************************************************************************)
NoBatchAfterStop ==
    \A l \in DOMAIN loops : loops[l].stopped => loops[l].batches = loops[l].atStop

Stopped(l) == l \in DOMAIN loops /\ loops[l].stopped

CallEnded(l) == l \in DOMAIN loops /\ Ended(l)

C16_StopEndsLoop ==
    /\ []NoBatchAfterStop
    /\ \A l \in 1..MaxStarts : Stopped(l) ~> CallEnded(l)

\* the same as long as startMining() is not called again
C16_StopWithoutRestart ==
    /\ [](Len(loops) <= 1 => NoBatchAfterStop)
    /\ Stopped(1) ~> (CallEnded(1) \/ Len(loops) > 1)
(***************************************************************************)
(* C17.  A build returns a dataset only if one 64-byte item fits the       *)
(* device's largest storage binding and the partitions are no more than    *)
(* the storage buffers the device can bind in a shader stage               *)
(* (MaxBindableBuffers); otherwise it fails and returns nothing.           *)
(***************************************************************************)
MaxBindableBuffers == 8

C17_PartitionErrorsAreFatal ==
    ptPhase = "returned" =>
      /\ ptLimit >= HASH_BYTES
      /\ ptPlan.numBuffers <= MaxBindableBuffers
(***************************************************************************)
(* The epoch manager.  Strings are sequences of characters.  A seed is the *)
(* digest of Keccak-256 taken unit by unit (8 units of WordBits bits where *)
(* the program has 32 bytes); the hex text of a unit has ByteBits digits,  *)
(* two for the 8-bit bytes of the base model.  The two caches are the      *)
(* module-level Maps, which every call shares.                             *)
(***************************************************************************)
SeedMaxEpoch == 3

HexDigits == <<"0", "1", "2", "3", "4", "5", "6", "7",
               "8", "9", "a", "b", "c", "d", "e", "f">>

HexChar(n) == HexDigits[n + 1]

LowerCase(c) ==
    CASE c = "A" -> "a" [] c = "B" -> "b" [] c = "C" -> "c" [] c = "D" -> "d"
      [] c = "E" -> "e" [] c = "F" -> "f" [] c = "X" -> "x" [] OTHER -> c

UpperCase(c) ==
    CASE c = "a" -> "A" [] c = "b" -> "B" [] c = "c" -> "C" [] c = "d" -> "D"
      [] c = "e" -> "E" [] c = "f" -> "F" [] c = "x" -> "X" [] OTHER -> c

toLowerCase(str) == [k \in DOMAIN str |-> LowerCase(str[k])]

toUpperCase(str) == [k \in DOMAIN str |-> UpperCase(str[k])]

startsWith0x(str) == Len(str) >= 2 /\ str[1] = "0" /\ str[2] = "x"

(* b.toString(16).padStart(2, '0'), one unit after the other *)
bytesToHex(bytes) ==
    [k \in 1..(ByteBits * Length(bytes)) |->
       HexChar((bytes[(k - 1) \div ByteBits]
                  \div Pow2(4 * (ByteBits - 1 - ((k - 1) % ByteBits)))) % 16)]

(* parseInt(text, 16) on the digits text[from .. from + n - 1] *)
RECURSIVE parseInt16(_, _, _)
parseInt16(text, from, n) ==
    IF n = 0 THEN 0
    ELSE 16 * parseInt16(text, from, n - 1)
           + (CHOOSE d \in 0..15 : HexChar(d) = LowerCase(text[from + n - 1]))

hexToBytes(hex) ==
    LET clean == IF startsWith0x(hex) THEN SubSeq(hex, 3, Len(hex)) ELSE hex
    IN  [i \in 0..(Len(clean) \div ByteBits - 1) |->
           parseInt16(clean, i * ByteBits + 1, ByteBits)]

(* keccak256 of js-sha3 on a seed: one padded block in, the digest as hex *)
keccak256_hex(seed) ==
    bytesToHex(keccak256([k \in 0..33 |->
       IF k < 8 THEN seed[k]
       ELSE IF k = 8 THEN 1
       ELSE IF k = 33 THEN WordMod \div 2
       ELSE 0]))

ZeroSeed == [k \in 0..7 |-> 0]

Prefixed(hex) == <<"0", "x">> \o hex

MapHas(map, key) == \E p \in map : p[1] = key

MapGet(map, key) == (CHOOSE p \in map : p[1] = key)[2]

MapSet(map, key, value) == {p \in map : p[1] # key} \cup {<<key, value>>}

RECURSIVE SeedLoop(_, _, _)
SeedLoop(seed, i, epoch) ==
    IF i >= epoch THEN seed
    ELSE Only({SeedLoop(next, i + 1, epoch) :
                 next \in {hexToBytes(keccak256_hex(seed))}})

(* what getSeedHashForEpoch computes when its cache has no entry *)
SeedHexOf(epoch) ==
    IF epoch = 0
    THEN Prefixed([k \in 1..(8 * ByteBits) |-> "0"])
    ELSE Prefixed(bytesToHex(SeedLoop(ZeroSeed, 0, epoch)))

GetSeedHashForEpoch(epoch) ==
    /\ \E seed \in {IF MapHas(epochSeedCache, epoch)
                     THEN MapGet(epochSeedCache, epoch)
                     ELSE SeedHexOf(epoch)} :
          /\ IF MapHas(epochSeedCache, epoch)
             THEN UNCHANGED <<epochSeedCache, seedHashCache>>
             ELSE /\ epochSeedCache' = MapSet(epochSeedCache, epoch, seed)
                  /\ seedHashCache' = MapSet(seedHashCache, seed, epoch)
          /\ eIssued' = eIssued \cup {<<epoch, seed>>}
          /\ eCall' = [fn |-> "getSeedHashForEpoch", epoch |-> epoch, seed |-> seed,
                       max |-> 0 - 1]

\* the normalisation without toLowerCase
NormalizeKeepCase(seedHash) ==
    IF startsWith0x(seedHash) THEN seedHash ELSE Prefixed(seedHash)

Normalize(seedHash) ==
    IF startsWith0x(toLowerCase(seedHash))
    THEN toLowerCase(seedHash)
    ELSE Prefixed(toLowerCase(seedHash))

(* for (let epoch = 0; epoch <= maxEpoch; epoch++): the result and the two *)
(* caches after the loop                                                   *)
RECURSIVE SeedScan(_, _, _, _, _, _)
SeedScan(seed, epoch, max, normalizedSeed, shc, esc) ==
    IF epoch > max THEN [ret |-> 0 - 1, shc |-> shc, esc |-> esc]
    ELSE LET currentSeedHex == Prefixed(bytesToHex(seed))
             esc2 == MapSet(esc, epoch, currentSeedHex)
             shc2 == MapSet(shc, currentSeedHex, epoch)
         IN  IF currentSeedHex = normalizedSeed
             THEN [ret |-> epoch, shc |-> shc2, esc |-> esc2]
             ELSE Only({SeedScan(next, epoch + 1, max, normalizedSeed, shc2, esc2) :
                          next \in {hexToBytes(keccak256_hex(seed))}})

GetEpochFromSeedHash(seedHash, max) ==
    /\ \E normalizedSeed \in {Normalize(seedHash)} :
          IF MapHas(seedHashCache, normalizedSeed)
          THEN /\ eCall' = [fn |-> "getEpochFromSeedHash",
                            epoch |-> MapGet(seedHashCache, normalizedSeed),
                            seed |-> seedHash, max |-> max]
               /\ UNCHANGED <<epochSeedCache, seedHashCache>>
          ELSE \E r \in {SeedScan(ZeroSeed, 0, max, normalizedSeed,
                                  seedHashCache, epochSeedCache)} :
                 /\ eCall' = [fn |-> "getEpochFromSeedHash", epoch |-> r.ret,
                              seed |-> seedHash, max |-> max]
                 /\ seedHashCache' = r.shc
                 /\ epochSeedCache' = r.esc
    /\ UNCHANGED eIssued

\* for (let epoch = 0; epoch <= maxEpoch; epoch++) getSeedHashForEpoch(epoch)
RECURSIVE WarmLoop(_, _, _, _)
WarmLoop(epoch, upTo, shc, esc) ==
    IF epoch > upTo THEN [shc |-> shc, esc |-> esc]
    ELSE IF MapHas(esc, epoch) THEN WarmLoop(epoch + 1, upTo, shc, esc)
    ELSE Only({WarmLoop(epoch + 1, upTo, MapSet(shc, seed, epoch),
                        MapSet(esc, epoch, seed)) : seed \in {SeedHexOf(epoch)}})

WarmupEpochCache(upTo) ==
    /\ \E r \in {WarmLoop(0, upTo, seedHashCache, epochSeedCache)} :
          /\ seedHashCache' = r.shc
          /\ epochSeedCache' = r.esc
    /\ eCall' = [fn |-> "warmupEpochCache", epoch |-> 0 - 1, seed |-> <<>>,
                 max |-> upTo]
    /\ UNCHANGED eIssued

(* The spellings of a seed string a caller may pass: as issued, upper      *)
(* case, upper-case digits after 0x, and both without the prefix.          *)
Unprefixed(str) == SubSeq(str, 3, Len(str))

Spellings(str) ==
    {str, toUpperCase(str), Prefixed(toUpperCase(Unprefixed(str))),
     Unprefixed(str), toUpperCase(Unprefixed(str))}

ForeignSeed == Prefixed([k \in 1..(8 * ByteBits) |-> "f"])

InitEpoch ==
    /\ seedHashCache = {} /\ epochSeedCache = {} /\ eIssued = {}
    /\ eCall = NoCall
    /\ FilterIdle /\ PartitionIdle /\ DagIdle /\ CoordIdle /\ BatchIdle /\ TestIdle /\ CacheIdle /\ FnvIdle
    /\ DispatchIdle

(* The seed strings a caller holds: those getSeedHashForEpoch returned,    *)
(* the seed hashes of work packages (the chain value of their epoch), and  *)
(* one that is the seed of no epoch.                                       *)
ChainSeeds == [e \in 0..SeedMaxEpoch |-> SeedHexOf(e)]

KnownSeeds ==
    eIssued \cup {<<e, ChainSeeds[e]>> : e \in 0..SeedMaxEpoch}

\* the maxEpoch arguments tried: one below the epochs asked for, and the last
SearchMax == SeedMaxEpoch - 2

NextEpoch ==
    /\ \/ \E epoch \in 0..SeedMaxEpoch : GetSeedHashForEpoch(epoch)
       \/ \E p \in KnownSeeds \cup {<<0 - 1, ForeignSeed>>} :
          \E seedHash \in Spellings(p[2]), max \in {SearchMax, SeedMaxEpoch} :
             GetEpochFromSeedHash(seedHash, max)
       \/ WarmupEpochCache(SeedMaxEpoch)
    /\ UNCHANGED <<filterVars, partitionVars, dagVars, coordVars, batchVars,
                   dispatchVars, testVars,
                   cacheVars, fnvVars>>

SpecEpoch == InitEpoch /\ [][NextEpoch]_vars

(***************************************************************************)
(* C18.  Whatever calls came before, getEpochFromSeedHash on a seed string *)
(* that getSeedHashForEpoch returned for an epoch e in 0..maxEpoch, in any *)
(* spelling (upper or lower case, with or without the 0x prefix), answers  *)
(* e.                                                                      *)
(***************************************************************************)
C18_SeedRoundTrip ==
    /\ \A p \in eIssued : p[2] = ChainSeeds[p[1]]
    /\ eCall.fn = "getEpochFromSeedHash" =>
         \A p \in KnownSeeds :
            (p[1] <= eCall.max /\ eCall.seed \in Spellings(p[2]))
               => eCall.epoch = p[1]

\* the seed of the last epoch, which holds a letter digit, passed in upper
\* case without prefix, after getSeedHashForEpoch returned it from its
\* cache, the cache having been filled by an earlier search
C18_Witness ==
    /\ eCall.fn = "getEpochFromSeedHash"
    /\ eCall.epoch = SeedMaxEpoch
    /\ eCall.max = SeedMaxEpoch
    /\ eCall.seed = toUpperCase(Unprefixed(ChainSeeds[SeedMaxEpoch]))
    /\ eCall.seed # Unprefixed(ChainSeeds[SeedMaxEpoch])
    /\ eIssued = {<<SeedMaxEpoch, ChainSeeds[SeedMaxEpoch]>>}
    /\ MapHas(epochSeedCache, 1)
(***************************************************************************)
(* C19: for every difficulty >= 1 the threshold floor(2^256 / difficulty)  *)
(* fits in 256 bits and the eight little-endian words the filter kernel    *)
(* reads at params[2..9] represent exactly that threshold, for as long as  *)
(* the batch runs.                                                         *)
(***************************************************************************)
\* digit k of the number held by params[2..9]
ParamsDigit(k) == IF k < 32 THEN ByteOf(fParams[2 + (k \div 4)], k % 4) ELSE 0

ParamsHold(threshold) ==
    \A k \in 0..32 : ParamsDigit(k) = Digit(threshold, k)

Uploaded == fPhase \in {"dispatched", "returned"}

\* C19: the words at params[2..9] are the threshold of every difficulty >= 1
C19_ThresholdWords ==
    \A d \in 1..MaxDifficulty :
       (Uploaded /\ fIn.difficulty = difficultyToTarget(d))
          => /\ Fits256(difficultyToTarget(d))
             /\ ParamsHold(difficultyToTarget(d))

\* C19 for the difficulties from 2 up
C19_FromTwoUp ==
    \A d \in 2..MaxDifficulty :
       (Uploaded /\ fIn.difficulty = difficultyToTarget(d))
          => /\ Fits256(difficultyToTarget(d))
             /\ ParamsHold(difficultyToTarget(d))

\* C19: no step of the kernel or of the readback changes the params binding
C19_ConstantInBatch ==
    [][fPhase = "dispatched" => fParams' = fParams]_vars

(***************************************************************************)
(* test-keccak.ts testKeccak, for one test vector: the host pads the       *)
(* message into a block of the rate, views it as u32 words, binds it to    *)
(* the Keccak shader and reads the digest back.  The rates are the         *)
(* program's (72 and 136 bytes); a byte holds ByteBits bits, so that 0x01  *)
(* is 1 and 0x80 is the top bit of the byte.                               *)
(***************************************************************************)
SuffixByte == 1

EndByte == ByteMod \div 2

RateOf(bits) == IF bits = 512 THEN 72 ELSE 136

\* the test inputs: every length below the rate, two contents a length
TestInputs(bits) ==
    UNION {{[k \in 0..(n - 1) |-> ByteMax], [k \in 0..(n - 1) |-> (k + 1) % ByteMod]} :
             n \in 0..(RateOf(bits) - 1)}

\* padded.set(input); padded[input.length] = 0x01; padded[rate - 1] = 0x80
Pad(input, rate) ==
    [k \in 0..(rate - 1) |->
       IF k = rate - 1 THEN EndByte
       ELSE IF k < Length(input) THEN input[k]
       ELSE IF k = Length(input) THEN SuffixByte
       ELSE 0]

TestPad ==
    /\ tPhase = "start"
    /\ tPadded' = Pad(tTest.input, RateOf(tTest.bits))
    /\ tPhase' = "padded"
    /\ UNCHANGED <<tTest, tInputU32, tDigest>>

\* new Uint32Array(rate / 4) viewed as bytes and filled with padded
TestUpload ==
    /\ tPhase = "padded"
    /\ tInputU32' = [i \in 0..((RateOf(tTest.bits) \div 4) - 1) |->
                       getUint32(tPadded, 4 * i)]
    /\ tPhase' = "uploaded"
    /\ UNCHANGED <<tTest, tPadded, tDigest>>

\* the dispatch of the shader on the block and the readback of the digest
TestRun ==
    /\ tPhase = "uploaded"
    /\ tDigest' = IF tTest.bits = 512 THEN keccak512(tInputU32)
                  ELSE keccak256(tInputU32)
    /\ tPhase' = "hashed"
    /\ UNCHANGED <<tTest, tPadded, tInputU32>>

InitTest ==
    /\ tPhase = "start"
    /\ \E bits \in {256, 512} : \E input \in TestInputs(bits) :
          tTest = [input |-> input, bits |-> bits]
    /\ tPadded = <<>> /\ tInputU32 = <<>> /\ tDigest = <<>>
    /\ FilterIdle /\ PartitionIdle /\ DagIdle /\ CoordIdle /\ BatchIdle
    /\ DispatchIdle /\ EpochIdle /\ CacheIdle /\ FnvIdle

NextTest ==
    /\ \/ TestPad
       \/ TestUpload
       \/ TestRun
    /\ UNCHANGED <<filterVars, partitionVars, dagVars, coordVars, batchVars,
                   dispatchVars, epochVars,
                   cacheVars, fnvVars>>

SpecTest == InitTest /\ [][NextTest]_vars

(***************************************************************************)
(* C20: at every Keccak call site the block absorbed is one block of the   *)
(* rate that holds the message, then 0x01 in the byte right after it,      *)
(* 0x80 OR-ed into the last byte of the rate, and zero in between.         *)
(***************************************************************************)
\* block, as bytes, is the multi-rate padding of its first n bytes
IsPadded(block, n, rate) ==
    /\ DOMAIN block = 0..(rate - 1)
    /\ n < rate
    /\ \A k \in (n + 1)..(rate - 2) : block[k] = 0
    /\ IF n = rate - 1
       THEN block[n] = SuffixByte + EndByte
       ELSE block[n] = SuffixByte /\ block[rate - 1] = EndByte

BlockAbsorbed == WordsToBytes(tInputU32)

C20_HostPaddingShort ==
    (tPhase \in {"uploaded", "hashed"}
        /\ Length(tTest.input) < RateOf(tTest.bits) - 1) =>
        /\ IsPadded(BlockAbsorbed, Length(tTest.input), RateOf(tTest.bits))
        /\ \A k \in DOMAIN tTest.input : BlockAbsorbed[k] = tTest.input[k]

\* C20 at the two call sites of the Hashimoto kernel: 40 bytes in a rate
\* of 72 for stage 1, 96 bytes in a rate of 136 for the final hash
C20_KernelSites ==
    \A t \in DOMAIN kpc :
       /\ kpc[t] \in {"loop", "final"} =>
             IsPadded(WordsToBytes(KeccakInputOf(t)), 40, 72)
       /\ kpc[t] = "final" =>
             IsPadded(WordsToBytes(final_input_of(kst[t].s, Compress(kst[t].mix))),
                      96, 136)

\* C20 at the call sites of the DAG builder: 64 bytes in a rate of 72
C20_BuilderSites ==
    (dPhase = "dispatched" /\ chunkParams[0] > 0) =>
        \A i \in 0..(chunkParams[0] - 1) :
           IsPadded(WordsToBytes(PadItem(CacheItem(cacheBuffer, i))), 64, 72)

(***************************************************************************)
(* Cache size.  getCacheItemCount (cache builder) and getCacheSizeBytes    *)
(* (fnv.ts) reduce floor(bytes / 64) to an odd number and step down by 2   *)
(* until isPrime answers true; generateDAGGPU hands the byte count to      *)
(* Ethash.mkcache, which makes floor(cacheSize / 64) items, and takes the  *)
(* length of what it returns.                                              *)
(***************************************************************************)
CACHE_INIT_BYTES == 16777216

CACHE_GROWTH_BYTES == 131072

cacheBytesOf(epoch) == CACHE_INIT_BYTES + epoch * CACHE_GROWTH_BYTES

\* floor(Math.sqrt(n)), by bisection: the largest r in lo..hi with r * r <= n
\* (r * r <= n written r <= n \div r)
RECURSIVE FloorSqrt(_, _, _)
FloorSqrt(n, lo, hi) ==
    IF lo >= hi THEN lo
    ELSE LET mid == (lo + hi + 1) \div 2
         IN  IF mid <= n \div mid THEN FloorSqrt(n, mid, hi)
             ELSE FloorSqrt(n, lo, mid - 1)

\* const limit = Math.sqrt(n);
\* for (let i = 3; i <= limit; i += 2) if (n % i === 0) return false
isPrime(n) ==
    IF n < 2 THEN FALSE
    ELSE IF n = 2 THEN TRUE
    ELSE IF n % 2 = 0 THEN FALSE
    ELSE \A i \in 3..FloorSqrt(n, 1, n) : i % 2 = 1 => n % i # 0

CacheFns == {"getCacheItemCount", "getCacheSizeBytes", "generateDAGGPU"}

\* items = Math.floor(bytes / HASH_BYTES); if (items % 2 === 0) items -= 1
CacheSizeStart ==
    /\ csPhase = "start"
    /\ csFn \in {"getCacheItemCount", "getCacheSizeBytes"}
    /\ LET items == cacheBytesOf(csEpoch) \div HASH_BYTES
       IN  csItems' = IF items % 2 = 0 THEN items - 1 ELSE items
    /\ csPhase' = "search"
    /\ UNCHANGED <<csFn, csEpoch, csResult>>

\* while (!isPrime(items)) items -= 2
CacheSizeStep ==
    /\ csPhase = "search"
    /\ isPrime(csItems) = FALSE
    /\ csItems' = csItems - 2
    /\ UNCHANGED <<csPhase, csFn, csEpoch, csResult>>

CacheSizeReturn ==
    /\ csPhase = "search"
    /\ isPrime(csItems) = TRUE
    /\ csResult' = IF csFn = "getCacheSizeBytes" THEN csItems * HASH_BYTES
                   ELSE csItems
    /\ csPhase' = "done"
    /\ UNCHANGED <<csFn, csEpoch, csItems>>

\* cache = ethash.mkcache(cacheBytes, seed); numCacheItems = cache.length
DagCacheCount ==
    /\ csPhase = "start"
    /\ csFn = "generateDAGGPU"
    /\ csItems' = cacheBytesOf(csEpoch) \div HASH_BYTES
    /\ csResult' = cacheBytesOf(csEpoch) \div HASH_BYTES
    /\ csPhase' = "done"
    /\ UNCHANGED <<csFn, csEpoch>>

InitCacheSize ==
    /\ csPhase = "start"
    /\ csFn \in CacheFns
    /\ csEpoch \in 0..MaxEpoch
    /\ csItems = 0 /\ csResult = 0
    /\ FilterIdle /\ PartitionIdle /\ DagIdle /\ CoordIdle /\ BatchIdle
    /\ DispatchIdle /\ EpochIdle /\ TestIdle /\ FnvIdle

CacheSizeNext ==
    \/ CacheSizeStart
    \/ CacheSizeStep
    \/ CacheSizeReturn
    \/ DagCacheCount

NextCacheSize ==
    /\ CacheSizeNext
    /\ UNCHANGED <<filterVars, partitionVars, dagVars, coordVars, batchVars,
                   dispatchVars, epochVars, testVars, fnvVars>>

SpecCacheSize == InitCacheSize /\ [][NextCacheSize]_vars

\* the search is a loop of one thread: it keeps running until it returns
SpecCacheSizeFair == SpecCacheSize /\ WF_vars(NextCacheSize)

(***************************************************************************)
(* C21: for every epoch the number of cache items is a prime, at most      *)
(* floor((16 MiB + epoch * 128 KiB) / 64), with no larger prime at or      *)
(* below that bound; the search that finds it terminates.                  *)
(***************************************************************************)
Divides(d, n) == n % d = 0

IsPrimeNumber(n) == n > 1 /\ \A d \in 2..(n - 1) : ~Divides(d, n)

CacheBound(epoch) == cacheBytesOf(epoch) \div 64

LargestPrimeUpTo(n, bound) ==
    /\ IsPrimeNumber(n)
    /\ n <= bound
    /\ \A m \in (n + 1)..bound : \E d \in 2..(m - 1) : Divides(d, m)

\* C21: whichever function counts them, the cache items of an epoch are
\* the largest prime up to the bound
C21_CacheItemsPrime ==
    csPhase = "done" => LargestPrimeUpTo(csItems, CacheBound(csEpoch))

\* C21 for the two functions that search
C21_SearchFindsPrime ==
    (csPhase = "done" /\ csFn # "generateDAGGPU") =>
        /\ LargestPrimeUpTo(csItems, CacheBound(csEpoch))
        /\ csResult = (IF csFn = "getCacheSizeBytes" THEN 64 * csItems ELSE csItems)

\* C21: every search returns
C21_SearchTerminates == <>(csPhase = "done")

(***************************************************************************)
(* FNV at its 32-bit width.  A u32 is four little-endian bytes of 8 bits,  *)
(* so that products and sums wrap at 2^32 as the code's do: fnv.ts         *)
(* fnvEthash via Math.imul, the shader's fnv via u32 arithmetic.           *)
(***************************************************************************)
FNV_PRIME == 16777619

U32(n) == [k \in 0..3 |-> (n \div Pow2(8 * k)) % 256]

Bit8(v, i) == (v \div Pow2(i)) % 2

RECURSIVE OrBits(_, _, _)
OrBits(a, b, i) ==
    IF i = 8 THEN 0
    ELSE Pow2(i) * (IF Bit8(a, i) + Bit8(b, i) > 0 THEN 1 ELSE 0)
         + OrBits(a, b, i + 1)

RECURSIVE XorBits(_, _, _)
XorBits(a, b, i) ==
    IF i = 8 THEN 0
    ELSE Pow2(i) * ((Bit8(a, i) + Bit8(b, i)) % 2) + XorBits(a, b, i + 1)

\* a ^ b on u32
xor_u32(a, b) == [k \in 0..3 |-> XorBits(a[k], b[k], 0)]

\* a | b on u32
or_u32(a, b) == [k \in 0..3 |-> OrBits(a[k], b[k], 0)]

\* column k of the schoolbook product and the carry out of it
RECURSIVE MulColumn(_, _, _)
MulColumn(a, b, k) ==
    IF k < 0 THEN 0
    ELSE (MulColumn(a, b, k - 1) \div 256)
         + a[0] * b[k]
         + (IF k >= 1 THEN a[1] * b[k - 1] ELSE 0)
         + (IF k >= 2 THEN a[2] * b[k - 2] ELSE 0)
         + (IF k >= 3 THEN a[3] * b[k - 3] ELSE 0)

\* a * b on u32 (WGSL), Math.imul(a, b) as bits: the low 32 bits of the product
mul_u32(a, b) == [k \in 0..3 |-> MulColumn(a, b, k) % 256]

RECURSIVE AddColumn(_, _, _)
AddColumn(a, b, k) ==
    IF k < 0 THEN 0 ELSE (AddColumn(a, b, k - 1) \div 256) + a[k] + b[k]

\* a + b on u32, wrapping
add_u32(a, b) == [k \in 0..3 |-> AddColumn(a, b, k) % 256]

\* fnv.ts: const mul = Math.imul(a >>> 0, FNV_PRIME); return (mul ^ b) >>> 0
fnvEthash(a, b) == xor_u32(mul_u32(a, U32(FNV_PRIME)), b)

\* the shader's fnv with | in place of ^
fnv_u32_or(x, y) ==
    or_u32(add_u32(mul_u32(x, U32(16777216)), mul_u32(x, U32(403))), y)

\* hashimoto-shader.wgsl: part1 = x * 0x01000000u; part2 = x * 0x193u;
\* return ((part1 + part2) ^ y)
fnv_u32(x, y) ==
    xor_u32(add_u32(mul_u32(x, U32(16777216)), mul_u32(x, U32(403))), y)

\* FNV_TEST_VECTORS
FNV_TEST_VECTORS ==
    <<[a |-> 102, b |-> 0, expected |-> 84696446],
      [a |-> 0, b |-> 255, expected |-> 16777727],
      [a |-> 16777619, b |-> 16777619, expected |-> 0]>>

\* the operands tried: every u32 whose bytes are taken from these
FnvBytes == {0, 1, 102, 147, 255}

FnvWords == [0..3 -> FnvBytes]

FnvEthashCall ==
    /\ nvCpu = <<>>
    /\ nvCpu' = fnvEthash(nvX, nvY)
    /\ UNCHANGED <<nvX, nvY, nvGpu, vfPhase, vfIdx, allPassed>>

ShaderFnvCall ==
    /\ nvGpu = <<>>
    /\ nvGpu' = fnv_u32(nvX, nvY)
    /\ UNCHANGED <<nvX, nvY, nvCpu, vfPhase, vfIdx, allPassed>>

\* one iteration of the loop over FNV_TEST_VECTORS
ValidateStep ==
    /\ vfPhase = "loop"
    /\ vfIdx < Len(FNV_TEST_VECTORS)
    /\ LET vector == FNV_TEST_VECTORS[vfIdx + 1]
           result == fnvEthash(U32(vector.a), U32(vector.b))
           passed == result = U32(vector.expected)
       IN  allPassed' = (allPassed /\ passed)
    /\ vfIdx' = vfIdx + 1
    /\ UNCHANGED <<nvX, nvY, nvCpu, nvGpu, vfPhase>>

\* return allPassed
ValidateReturn ==
    /\ vfPhase = "loop"
    /\ vfIdx = Len(FNV_TEST_VECTORS)
    /\ vfPhase' = "returned"
    /\ UNCHANGED <<nvX, nvY, nvCpu, nvGpu, vfIdx, allPassed>>

InitFnv ==
    /\ nvX \in FnvWords
    /\ nvY \in {U32(0), U32(255), nvX, mul_u32(nvX, U32(FNV_PRIME))}
    /\ nvCpu = <<>> /\ nvGpu = <<>>
    /\ vfPhase = "loop" /\ vfIdx = 0 /\ allPassed = TRUE
    /\ FilterIdle /\ PartitionIdle /\ DagIdle /\ CoordIdle /\ BatchIdle
    /\ DispatchIdle /\ EpochIdle /\ TestIdle /\ CacheIdle

NextFnv ==
    /\ \/ FnvEthashCall
       \/ ShaderFnvCall
       \/ ValidateStep
       \/ ValidateReturn
    /\ UNCHANGED <<filterVars, partitionVars, dagVars, coordVars, batchVars,
                   dispatchVars, epochVars, testVars, cacheVars>>

SpecFnv == InitFnv /\ [][NextFnv]_vars

(***************************************************************************)
(* C22: fnv(x, y) = ((x * 0x01000193) mod 2^32) xor y, as fnvEthash and    *)
(* the shader's fnv compute it, gives fnv(0x66, 0) = 0x050c5d7e and        *)
(* fnv(x, (x * 0x01000193) mod 2^32) = 0 for every x.                      *)
(***************************************************************************)
\* the eight bytes of the full product x * 0x01000193, low byte first
RECURSIVE ProductColumn(_, _, _)
ProductColumn(x, p, k) ==
    IF k < 0 THEN 0
    ELSE (ProductColumn(x, p, k - 1) \div 256)
         + (LET I == {i \in 0..3 : k - i \in 0..3}
                RECURSIVE Sum(_)
                Sum(S) == IF S = {} THEN 0
                          ELSE LET i == CHOOSE j \in S : TRUE
                               IN  x[i] * p[k - i] + Sum(S \ {i})
            IN  Sum(I))

\* ((x * 0x01000193) mod 2^32) xor y, from the definition
FnvByDefinition(x, y) ==
    [k \in 0..3 |->
       LET m == ProductColumn(x, U32(FNV_PRIME), k) % 256
       IN  NatOf(SymDiff({i \in 0..7 : Bit8(m, i) = 1},
                         {i \in 0..7 : Bit8(y[k], i) = 1}))]

FnvResults == {r \in {nvCpu, nvGpu} : r # <<>>}

FnvAgrees == \A r \in FnvResults : r = FnvByDefinition(nvX, nvY)

FnvSelfCancels ==
    nvY = mul_u32(nvX, U32(FNV_PRIME)) => \A r \in FnvResults : r = U32(0)

C23_ValidateReturnsTrue ==
    vfPhase = "returned" => allPassed = TRUE

\* C23: the self-test returns, and returns false, every vector failing
C23_EveryVectorFails ==
    /\ \A v \in 1..Len(FNV_TEST_VECTORS) :
          fnvEthash(U32(FNV_TEST_VECTORS[v].a), U32(FNV_TEST_VECTORS[v].b))
             # U32(FNV_TEST_VECTORS[v].expected)
    /\ vfPhase = "returned" => allPassed = FALSE

(***************************************************************************)
(* C24: getEpochFromSeedHash(seedHash, maxEpoch) returns -1 when seedHash  *)
(* is the seed of no epoch in 0..maxEpoch and an epoch in 0..maxEpoch      *)
(* otherwise, whatever epoch-manager calls came before.                    *)
(***************************************************************************)
SeedEpochsUpTo(seedHash, max) ==
    {e \in 0..max : Normalize(seedHash) = ChainSeeds[e]}

\* C24: -1 exactly for the seeds of no epoch up to maxEpoch
C24_MinusOneOrInRange ==
    eCall.fn = "getEpochFromSeedHash" =>
        IF SeedEpochsUpTo(eCall.seed, eCall.max) = {}
        THEN eCall.epoch = 0 - 1
        ELSE eCall.epoch \in 0..eCall.max

\* C24 but for the bound: the answer is -1 for a seed of no epoch up to
\* maxEpoch that no earlier call cached, and is otherwise the seed's epoch
C24_EpochOfSeed ==
    eCall.fn = "getEpochFromSeedHash" =>
        /\ eCall.epoch # 0 - 1 =>
              eCall.epoch \in SeedEpochsUpTo(eCall.seed, SeedMaxEpoch)
        /\ eCall.epoch = 0 - 1 => SeedEpochsUpTo(eCall.seed, eCall.max) = {}

(***************************************************************************)
(* C25.  Under any sequence of startMining() and stopMining() calls, also  *)
(* stopMining() then startMining() while a batch is in flight, at most one *)
(* mining loop is running (has neither returned nor rejected).             *)
(***************************************************************************)
RunningLoops == {l \in DOMAIN loops : ~Ended(l)}

C25_OneLoopRunning == Cardinality(RunningLoops) <= 1

\* with a single startMining() call there is one loop at most
C25_OneStartOneLoop == Len(loops) <= 1 => Cardinality(RunningLoops) <= 1

(***************************************************************************)
(* C26.  Every share is submitted with the header hash of the work package *)
(* its batch was mined against, also when a new-block notification         *)
(* replaces the current work while the batch or an earlier submission of   *)
(* the batch is in flight.                                                 *)
(***************************************************************************)
C26_SubmittedHeaderIsMined ==
    \A l \in DOMAIN loops :
       loops[l].pc = "awaitSubmit" => loops[l].header = loops[l].work.headerHash

(***************************************************************************)
(* C27.  Between operations of an initialized coordinator, currentEpoch is *)
(* the epoch of the dataset held in setup and the epoch of the seed hash   *)
(* of currentWork, also while a new-block handler rebuilds the dataset and *)
(* after the rebuild failed or the new seed hash could not be resolved.    *)
(***************************************************************************)
EpochAgrees ==
    /\ setup \in DOMAIN datasets
    /\ currentEpoch = datasets[setup].epoch
    /\ currentEpoch = getEpochFromSeedHash(currentWork.seedHash)

C27_EpochMatchesSetupAndWork == cPhase = "ready" => EpochAgrees

\* the dataset and the work agree with each other throughout
C27_SetupMatchesWork ==
    cPhase = "ready" =>
       /\ setup \in DOMAIN datasets
       /\ datasets[setup].epoch = getEpochFromSeedHash(currentWork.seedHash)

(***************************************************************************)
(* C30.  After any sequence of batches and share submissions, whatever the *)
(* outcome of each submission (accepted, rejected, error), sharesFound =   *)
(* sharesAccepted + sharesRejected.                                        *)
(***************************************************************************)
C30_FoundIsAcceptedPlusRejected ==
    stats.sharesFound = stats.sharesAccepted + stats.sharesRejected

\* every submission that ended is counted as accepted or rejected
C30_FoundAtMostSettled ==
    stats.sharesFound <= stats.sharesAccepted + stats.sharesRejected

NextIndex(t) ==
    AccessIndex(kst[t].i, kst[t].s[0], kst[t].mix, bParams[1])

BoundItems == Length(bIn.setup.dagBuffer) \div 16

C28_ReadsInBounds ==
    \A t \in DOMAIN kpc :
       (bPhase = "dispatched" /\ kpc[t] = "loop") =>
          /\ NextIndex(t) % 2 = 0
          /\ NextIndex(t) + 1 < bParams[1]
          /\ bParams[1] = BoundItems

\* the index is even and below the item count the kernel was given
C28_IndexBelowCount ==
    \A t \in DOMAIN kpc :
       (bPhase = "dispatched" /\ kpc[t] = "loop") =>
          /\ NextIndex(t) % 2 = 0
          /\ NextIndex(t) + 1 < bParams[1]

\* with the whole dataset in the bound buffer no read is out of bounds
C28_SinglePartition ==
    \A t \in DOMAIN kpc :
       (bPhase = "dispatched" /\ kpc[t] = "loop" /\ bIn.setup.numBuffers = 1) =>
          /\ bParams[1] = BoundItems
          /\ NextIndex(t) + 1 < BoundItems

====
